---- MODULE Spec2Model ----
\* State-machine model of the AI Life Coach backend (Express + Mongoose):
\* goal routes and the Goal model, the auth routes, the auth middleware and
\* the User model, the chat routes and the Message model, and the central
\* error handler.  Every subsystem has its own specification over the shared
\* variables; a specification leaves the variables of the other subsystems
\* at their initial value.
EXTENDS Integers, Sequences, FiniteSets, TLC

\* ---------------------------------------------------------------------------
\* Bounds
\* ---------------------------------------------------------------------------
MaxUsers == 2       \* user ids 1..MaxUsers
MaxGoals == 2       \* goal ids 1..MaxGoals
MaxReqs == 2        \* concurrently served requests per subsystem
MaxEvents == 2      \* progress updates and check-ins accepted in all
MaxAccounts == 1    \* registrations accepted in all
MaxEmails == 1      \* distinct e-mail addresses
MaxPasswords == 2   \* distinct valid passwords
MaxClock == 2       \* last value of the clock of the auth routes
MaxChatEvents == 3  \* message saves and feedback updates accepted in all
MaxBruteKeys == 1   \* keys seen by bruteForceProtection
MaxBruteReqs == 4   \* requests of one key in their handler at a time
MaxBruteClock == 3  \* last value of the clock of bruteForceProtection
MaxSignals == 2     \* signals delivered to the process
MaxSockets == 7     \* WebSockets created by one WebSocketService
MaxWsCalls == 2     \* connect() and disconnect() calls by the application
MaxProfileReqs == 1 \* PATCH /api/users/profile requests in flight
MaxProfileGoals == 1 \* increments of each goal counter of the user
MaxAnalysisGoals == 3 \* goals in one list handed to the analysis service

UserIds == 1..MaxUsers
GoalIds == 1..MaxGoals
ReqIds == 1..MaxReqs
ProfileReqIds == 1..MaxProfileReqs

\* A date that was never set (the clock starts at 1 and advances with every
\* stored event).
NoDate == 0

VARIABLES
  now,        \* logical clock read by new Date() / Date.now()
  goals,      \* Goal collection: goal _id -> stored document
  metrics,    \* User.metrics of every user: totalGoals, completedGoals
  greq,       \* goal requests in flight: slot -> position and locals
  gresp       \* the response sent by the last step of a goal route, if any

goalVars == <<now, goals, metrics, greq, gresp>>

VARIABLES
  clock,      \* wall-clock time seen by the auth routes and by jwt.verify
  users,      \* User collection: user _id -> stored document
  nextUid,    \* number of _ids handed out so far (an _id is never reused)
  issued,     \* tokens signed with JWT_SECRET by register and login
  pwSet,      \* user _id -> the plaintext of the last password the user set
  areq,       \* auth/user requests in flight: slot -> position and locals
  aresp       \* the response sent by the last step of these routes, if any

userVars == <<clock, users, nextUid, issued, pwSet, areq, aresp>>

VARIABLES
  nodeEnv,    \* process.env.NODE_ENV
  errIn,      \* the error passed to the error handler and its request URL
  errRes      \* the response the error handler sent

errVars == <<nodeEnv, errIn, errRes>>

VARIABLES
  msgs,       \* Message collection: message _id -> stored document
  nextMid,    \* number of message _ids handed out so far
  vectors,    \* entries of the vector store: userId and messageId
  creq,       \* chat requests in flight: slot -> position and locals
  cresp       \* the response sent by the last step of a chat route, if any

chatVars == <<msgs, nextMid, vectors, creq, cresp>>

VARIABLES
  bclock,       \* Date.now() as read by bruteForceProtection
  attempts,     \* the attempts map: key -> count and firstAttempt
  blocked,      \* the blocked map: key -> until
  inflight,     \* requests passed to the handler and not finished: key -> arrival time -> number
  bresp,        \* the last response or next() of the middleware, if any
  streak,       \* observer: failures counted in the current window, kept across the block
  sinceUnblock  \* observer: failures finished since the key's block was last removed

bruteVars == <<bclock, attempts, blocked, inflight, bresp, streak, sinceUnblock>>

VARIABLES
  phase,           \* position of startServer: connect_db ... running
  http,            \* the HTTP server: none, listening, closing, closed
  db,              \* the mongoose connection: none, connected, closing, closed
  redis,           \* the Redis client: none, connected, failed, closing, closed
  exit,            \* whether the process has exited, and its code
  closeCallbacks,  \* callbacks of server.close waiting for the 'close' event
  asyncCb,         \* the await the close callback is suspended at
  services,        \* the vector store: none, ready, failed
  timers,          \* force timers armed
  signals          \* signals delivered so far

lifeVars == <<phase, http, db, redis, services, exit, closeCallbacks, asyncCb, timers, signals>>

VARIABLES
  mwReq,  \* the request passing through the middleware chain
  mwRes   \* the response to it, and the middleware that sent it

mwVars == <<mwReq, mwRes>>

VARIABLES
  ws,                 \* WebSocketService.ws: the current socket, 0 for null
  reconnectAttempts,  \* WebSocketService.reconnectAttempts
  sockets,            \* every WebSocket created so far: its readyState
  wsTimers,           \* pending setTimeout(() => this.connect(), delay): the delays
  hasToken,           \* whether apiService.getAuthToken() returns a token
  wsCalls,            \* connect() and disconnect() calls made by the application
  sinceOpen,          \* observer: reconnects scheduled since the last open
  userDisconnected    \* observer: disconnect() was called and connect() not since

wsVars == <<ws, reconnectAttempts, sockets, wsTimers, hasToken, wsCalls, sinceOpen, userDisconnected>>

VARIABLES
  anGoals,   \* the goals handed to calculateOverallProgress
  anResult   \* what it returned

anVars == <<anGoals, anResult>>

VARIABLES
  pstore,  \* the user's stored document, and whether it still exists
  preq,    \* PATCH /api/users/profile requests in flight: slot -> position and locals
  pres     \* the response sent by the last step of the route, if any

profVars == <<pstore, preq, pres>>

clientVars == <<wsVars, anVars, profVars>>

infraVars == <<bruteVars, lifeVars, mwVars, clientVars>>

vars == <<goalVars, userVars, errVars, chatVars, infraVars>>

\* ---------------------------------------------------------------------------
\* Goal model (models/Goal.js)
\* ---------------------------------------------------------------------------
Max(a, b) == IF a >= b THEN a ELSE b
Min(a, b) == IF a <= b THEN a ELSE b

\* Request bodies: progress values below, inside and above the range, plus a
\* body without a numeric progress (Math.min/Math.max then yield NaN).
NaNProgress == 999
ProgressInputs == {-10, 50, 100, 150, NaNProgress}
Notes == {"note"}
\* mood of a check-in: inside and outside the schema's 1..5
MoodInputs == {3, 9}

\* new Goal({...}) with the schema defaults
NewGoal(u) ==
  [userId |-> u, status |-> "active", progress |-> 0, completedDate |-> NoDate,
   progressHistory |-> << >>, checkIns |-> << >>]

\* The document held by an idle request slot.
NoGoal == [userId |-> 0, status |-> "none", progress |-> 0, completedDate |-> NoDate,
           progressHistory |-> << >>, checkIns |-> << >>]

\* The clamp with min and max exchanged: Math.min(0, Math.max(100, x)).
ClampProgress_Swapped(newProgress) ==
  IF newProgress = NaNProgress THEN NaNProgress
  ELSE Min(0, Max(100, newProgress))

\* Math.max(0, Math.min(100, newProgress)); NaN stays NaN
ClampProgress(newProgress) ==
  IF newProgress = NaNProgress THEN NaNProgress
  ELSE Max(0, Min(100, newProgress))

\* goalSchema.methods.updateProgress applied to an in-memory document
updateProgress(doc, newProgress, note, date) ==
  LET p == ClampProgress(newProgress)
      d1 == [doc EXCEPT !.progress = p,
                        !.progressHistory = Append(@, [date |-> date, progress |-> p, note |-> note])]
  IN IF p = 100 /\ doc.status # "completed"
       THEN [d1 EXCEPT !.status = "completed", !.completedDate = date]
       ELSE d1

\* Schema validation run by save(): progress is a number in 0..100 and every
\* check-in mood is in 1..5.
GoalValid(doc) ==
  /\ doc.progress # NaNProgress
  /\ doc.progress >= 0 /\ doc.progress <= 100
  /\ \A i \in 1..Len(doc.checkIns) : doc.checkIns[i].mood >= 1 /\ doc.checkIns[i].mood <= 5

\* Entries pushed onto an array since the document was loaded.
Pushed(loaded, cur) == SubSeq(cur, Len(loaded) + 1, Len(cur))

\* A save that writes the whole in-memory document over the stored one.
SaveGoal_Overwrite(stored, loaded, cur) == cur

\* document.save() of a loaded document: Mongoose sends the delta, $set for
\* the scalar paths whose value changed and $push for the pushed entries,
\* and the database applies it to the stored document as it is then.
SaveGoalDelta(stored, loaded, cur) ==
  [stored EXCEPT
     !.progress = IF cur.progress # loaded.progress THEN cur.progress ELSE @,
     !.status = IF cur.status # loaded.status THEN cur.status ELSE @,
     !.completedDate = IF cur.completedDate # loaded.completedDate THEN cur.completedDate ELSE @,
     !.progressHistory = @ \o Pushed(loaded.progressHistory, cur.progressHistory),
     !.checkIns = @ \o Pushed(loaded.checkIns, cur.checkIns)]

\* ---------------------------------------------------------------------------
\* Goal routes (routes/goals.js); req.user is the user the auth middleware
\* attached.
\* ---------------------------------------------------------------------------
\* res.status(code).json(...) of the request in slot r
Resp(r, code) == [req |-> r, status |-> code]
NoResp == [req |-> 0, status |-> 0]

IdleGoalReq == [pc |-> "idle", userId |-> 0, goalId |-> 0, doc |-> NoGoal, arg |-> 0]

Tick == now' = now + 1

\* The clock counts the stored log entries; a request that will store one is
\* accepted while the stored and the pending entries stay within the bound.
Accepting ==
  now + Cardinality({r \in ReqIds : greq[r].pc \in {"progress_save", "checkin_save"}}) <= MaxEvents

\* A lookup by _id alone.
FindGoal_AnyOwner(g, u) == g \in DOMAIN goals

\* Goal.findOne({ _id: goalId, userId })
FindGoal(g, u) == g \in DOMAIN goals /\ goals[g].userId = u

\* POST /api/goals up to "await goal.save()"
CreateGoal(r, u, bodyValid) ==
  /\ UNCHANGED <<userVars, errVars, infraVars, chatVars>>
  /\ greq[r].pc = "idle"
  /\ UNCHANGED now
  /\ IF ~bodyValid
       THEN /\ gresp' = Resp(r, 400)
            /\ UNCHANGED <<goals, metrics, greq>>
       ELSE /\ Cardinality(DOMAIN goals) < MaxGoals
            /\ LET g == Cardinality(DOMAIN goals) + 1 IN
                 /\ goals' = [x \in DOMAIN goals \cup {g} |->
                                IF x = g THEN NewGoal(u) ELSE goals[x]]
                 /\ greq' = [greq EXCEPT ![r] = [pc |-> "create_metrics", userId |-> u,
                                                 goalId |-> g, doc |-> NewGoal(u), arg |-> 0]]
            /\ gresp' = NoResp
            /\ UNCHANGED metrics

\* POST /api/goals: User.findByIdAndUpdate($inc metrics.totalGoals), 201
CreateGoalMetrics(r) ==
  /\ UNCHANGED <<userVars, errVars, infraVars, chatVars>>
  /\ greq[r].pc = "create_metrics"
  /\ metrics' = [metrics EXCEPT ![greq[r].userId].totalGoals = @ + 1]
  /\ greq' = [greq EXCEPT ![r] = IdleGoalReq]
  /\ gresp' = Resp(r, 201)
  /\ UNCHANGED <<now, goals>>

\* PUT /api/goals/:id/progress up to the findOne
ProgressFind(r, u, g, progress) ==
  /\ UNCHANGED <<userVars, errVars, infraVars, chatVars>>
  /\ greq[r].pc = "idle"
  /\ IF FindGoal(g, u)
       THEN /\ Accepting
            /\ greq' = [greq EXCEPT ![r] = [pc |-> "progress_save", userId |-> u,
                                            goalId |-> g, doc |-> goals[g], arg |-> progress]]
            /\ gresp' = NoResp
       ELSE /\ gresp' = Resp(r, 404)
            /\ UNCHANGED greq
  /\ UNCHANGED <<now, goals, metrics>>

\* PUT /api/goals/:id/progress: goal.updateProgress(progress, note); await goal.save()
ProgressSave(r, note) ==
  /\ UNCHANGED <<userVars, errVars, infraVars, chatVars>>
  /\ greq[r].pc = "progress_save"
  /\ LET loaded == greq[r].doc
         cur == updateProgress(loaded, greq[r].arg, note, now)
         g == greq[r].goalId
     IN IF GoalValid(cur)
          THEN /\ goals' = [goals EXCEPT ![g] = SaveGoalDelta(@, loaded, cur)]
               /\ greq' = [greq EXCEPT ![r].pc = "progress_metrics", ![r].doc = cur]
               /\ Tick
               /\ gresp' = NoResp
          ELSE /\ gresp' = Resp(r, 500)
               /\ greq' = [greq EXCEPT ![r] = IdleGoalReq]
               /\ UNCHANGED <<goals, now>>
  /\ UNCHANGED metrics

\* PUT /api/goals/:id/progress: the completed-goal metric and the response
ProgressMetrics(r) ==
  /\ UNCHANGED <<userVars, errVars, infraVars, chatVars>>
  /\ greq[r].pc = "progress_metrics"
  /\ metrics' = IF greq[r].doc.status = "completed"
                  THEN [metrics EXCEPT ![greq[r].userId].completedGoals = @ + 1]
                  ELSE metrics
  /\ greq' = [greq EXCEPT ![r] = IdleGoalReq]
  /\ gresp' = Resp(r, 200)
  /\ UNCHANGED <<now, goals>>

\* POST /api/goals/:id/checkin up to the findOne
CheckInFind(r, u, g, mood) ==
  /\ UNCHANGED <<userVars, errVars, infraVars, chatVars>>
  /\ greq[r].pc = "idle"
  /\ IF FindGoal(g, u)
       THEN /\ Accepting
            /\ greq' = [greq EXCEPT ![r] = [pc |-> "checkin_save", userId |-> u,
                                            goalId |-> g, doc |-> goals[g], arg |-> mood]]
            /\ gresp' = NoResp
       ELSE /\ gresp' = Resp(r, 404)
            /\ UNCHANGED greq
  /\ UNCHANGED <<now, goals, metrics>>

\* POST /api/goals/:id/checkin: goal.checkIns.push({...}); await goal.save()
CheckInSave(r, note) ==
  /\ UNCHANGED <<userVars, errVars, infraVars, chatVars>>
  /\ greq[r].pc = "checkin_save"
  /\ LET loaded == greq[r].doc
         cur == [loaded EXCEPT !.checkIns =
                   Append(@, [date |-> now, mood |-> greq[r].arg, note |-> note])]
         g == greq[r].goalId
     IN IF GoalValid(cur)
          THEN /\ goals' = [goals EXCEPT ![g] = SaveGoalDelta(@, loaded, cur)]
               /\ gresp' = Resp(r, 200)
               /\ Tick
          ELSE /\ gresp' = Resp(r, 500)
               /\ UNCHANGED <<goals, now>>
  /\ greq' = [greq EXCEPT ![r] = IdleGoalReq]
  /\ UNCHANGED metrics

InitGoals ==
  /\ now = 1
  /\ goals = << >>
  /\ metrics = [u \in UserIds |-> [totalGoals |-> 0, completedGoals |-> 0]]
  /\ greq = [r \in ReqIds |-> IdleGoalReq]
  /\ gresp = NoResp

NextGoals ==
  \/ \E r \in ReqIds, u \in UserIds, v \in BOOLEAN : CreateGoal(r, u, v)
  \/ \E r \in ReqIds : CreateGoalMetrics(r)
  \/ \E r \in ReqIds, u \in UserIds, g \in GoalIds, p \in ProgressInputs : ProgressFind(r, u, g, p)
  \/ \E r \in ReqIds, n \in Notes : ProgressSave(r, n)
  \/ \E r \in ReqIds : ProgressMetrics(r)
  \/ \E r \in ReqIds, u \in UserIds, g \in GoalIds, m \in MoodInputs : CheckInFind(r, u, g, m)
  \/ \E r \in ReqIds, n \in Notes : CheckInSave(r, n)


\* ---------------------------------------------------------------------------
\* User model (models/User.js) and JWT helpers
\* ---------------------------------------------------------------------------
\* Request emails: every address in its lower-case form and in a form with
\* capitals or surrounding blanks.
RawEmails == {[addr |-> a, form |-> f] : a \in 1..MaxEmails, f \in {"lower", "Mixed "}}

\* The schema's setters on email: lowercase: true, trim: true.
NormalizeEmail(email) == [email EXCEPT !.form = "lower"]

\* A password is its plaintext and the number of bcrypt rounds applied to it;
\* plaintext 0 stands for a password shorter than the schema's minlength.
ShortPassword == 0
PasswordInputs == 0..MaxPasswords
Plain(p) == [plain |-> p, rounds |-> 0]
\* the password of a document loaded with select('-password')
Unselected == [plain |-> -1, rounds |-> 0]

\* Bcryptjs.hash(value, 12)
Hash(value) == [value EXCEPT !.rounds = @ + 1]
\* Bcryptjs.compare(plaintext, stored)
Compare(p, stored) == stored = Hash(Plain(p))

Names == {"n1", "n2"}
\* the name sent at registration
RegisterNames == {"n1"}

\* The paths userSchema declares; a stored field outside them is not a
\* property of the hydrated document.
UserSchemaPaths == {"email", "password", "name", "avatar", "lastActive"}
DocGet(doc, path) == IF path \in UserSchemaPaths THEN doc[path] ELSE "undefined"

\* The hook hashing on every save: it assigns this.password, so the path is
\* written back.
PreSave_AlwaysHash(doc, modified) ==
  [doc |-> [doc EXCEPT !.password = Hash(@)], modified |-> modified \cup {"password"}]

\* userSchema.pre('save'): hash the password only if it was modified
PreSave(doc, modified) ==
  IF "password" \notin modified
    THEN [doc |-> doc, modified |-> modified]
    ELSE [doc |-> [doc EXCEPT !.password = Hash(@)], modified |-> modified]

\* user.save() of a loaded document: the hook runs, then the modified paths
\* are written to the stored document.
SaveUser(stored, doc, modified) ==
  LET h == PreSave(doc, modified)
  IN [f \in DOMAIN stored |-> IF f \in h.modified THEN h.doc[f] ELSE stored[f]]

\* Schema validation of a new user: password has minlength 6.
UserValid(doc) == doc.password.plain # ShortPassword

\* The lookup with the filter used as sent, without the schema's setters.
FindUserByEmail_Raw(email) == {u \in DOMAIN users : users[u].email = email}

\* User.findOne({ email }): the filter is cast through the schema's setters
FindUserByEmail(email) == {u \in DOMAIN users : users[u].email = NormalizeEmail(email)}

\* Jsonwebtoken.sign({ userId }, JWT_SECRET, { expiresIn: '7d' })
TokenTTL == 1
Sign(uid, t) == [userId |-> uid, exp |-> t + TokenTTL, sig |-> "secret"]
\* the empty string where a token is expected
NoToken == [userId |-> 0, exp |-> 0, sig |-> "none"]
\* a token not signed with JWT_SECRET
Forged == {[userId |-> 1, exp |-> MaxClock + TokenTTL, sig |-> "other"]}

\* verify without the expiry check
Verify_NoExpiry(token, t) ==
  IF token.sig # "secret" THEN "JsonWebTokenError" ELSE "ok"

\* Jsonwebtoken.verify(token, JWT_SECRET)
Verify(token, t) ==
  IF token.sig # "secret" THEN "JsonWebTokenError"
  ELSE IF t >= token.exp THEN "TokenExpiredError"
  ELSE "ok"

\* Authorization headers: none, "Bearer <token>", "<token>", "Bearer " and "".
NoHeader == [present |-> FALSE, bearer |-> FALSE, token |-> NoToken]
Headers ==
  {NoHeader} \cup
  {[present |-> TRUE, bearer |-> b, token |-> t] :
     b \in BOOLEAN, t \in issued \cup Forged \cup {NoToken}}
\* !authHeader
HeaderMissing(h) == ~h.present \/ (~h.bearer /\ h.token = NoToken)
\* authHeader.startsWith('Bearer ') ? authHeader.slice(7) : authHeader
ExtractToken(h) == h.token

\* ---------------------------------------------------------------------------
\* Auth routes (routes/auth.js), auth middleware (middleware/auth.js) and
\* user routes (routes/users.js)
\* ---------------------------------------------------------------------------
AResp(r, route, code, ok) == [req |-> r, route |-> route, status |-> code, ok |-> ok]
NoAResp == [req |-> 0, route |-> "none", status |-> 0, ok |-> FALSE]

IdleUserReq == [pc |-> "idle", route |-> "none", token |-> NoToken, uid |-> 0,
                name |-> "none", email |-> [addr |-> 0, form |-> "lower"], password |-> 0]

Drop(f, u) == [x \in DOMAIN f \ {u} |-> f[x]]
Put(f, u, v) == [x \in DOMAIN f \cup {u} |-> IF x = u THEN v ELSE f[x]]

\* time passes
Advance ==
  /\ clock < MaxClock
  /\ clock' = clock + 1
  /\ aresp' = NoAResp
  /\ UNCHANGED <<users, nextUid, issued, pwSet, areq>>
  /\ UNCHANGED <<goalVars, errVars, infraVars, chatVars>>

\* The addresses of the stored users and of the registrations waiting to
\* save: each waiting address that is not stored can still insert one user.
StoredEmails == {users[u].email : u \in DOMAIN users}
PendingEmails == {NormalizeEmail(areq[q].email) : q \in {x \in ReqIds : areq[x].pc = "reg_save"}}

\* POST /api/auth/register up to the findOne
RegisterFind(r, name, email, password) ==
  /\ areq[r].pc = "idle"
  /\ IF FindUserByEmail(email) # {}
       THEN /\ aresp' = AResp(r, "register", 400, FALSE)
            /\ UNCHANGED areq
       ELSE /\ nextUid + Cardinality((PendingEmails \cup {NormalizeEmail(email)}) \ StoredEmails)
               <= MaxAccounts
            /\ areq' = [areq EXCEPT ![r] = [IdleUserReq EXCEPT !.pc = "reg_save",
                           !.route = "register", !.name = name, !.email = email,
                           !.password = password]]
            /\ aresp' = NoAResp
  /\ UNCHANGED <<clock, users, nextUid, issued, pwSet>>
  /\ UNCHANGED <<goalVars, errVars, infraVars, chatVars>>

\* POST /api/auth/register: new User({...}); await user.save(); sign; 201.
\* A validation error and the unique index's duplicate-key error are caught
\* by the handler's catch block.
RegisterSave(r) ==
  /\ areq[r].pc = "reg_save"
  /\ LET doc == [email |-> NormalizeEmail(areq[r].email), password |-> Plain(areq[r].password),
                 name |-> areq[r].name, avatar |-> "none", status |-> "unset",
                 lastActive |-> clock]
         uid == nextUid + 1
     IN IF UserValid(doc) /\ ~(\E u \in DOMAIN users : users[u].email = doc.email)
          THEN /\ users' = Put(users, uid, SaveUser(doc, doc, DOMAIN doc \ {"status"}))
               /\ nextUid' = uid
               /\ pwSet' = Put(pwSet, uid, areq[r].password)
               /\ issued' = issued \cup {Sign(uid, clock)}
               /\ aresp' = AResp(r, "register", 201, TRUE)
          ELSE /\ aresp' = AResp(r, "register", 500, FALSE)
               /\ UNCHANGED <<users, nextUid, pwSet, issued>>
  /\ areq' = [areq EXCEPT ![r] = IdleUserReq]
  /\ UNCHANGED clock
  /\ UNCHANGED <<goalVars, errVars, infraVars, chatVars>>

\* POST /api/auth/login
Login(r, email, password) ==
  /\ areq[r].pc = "idle"
  /\ LET found == FindUserByEmail(email) IN
       IF found = {} \/ (\A u \in found : ~Compare(password, users[u].password))
         THEN /\ aresp' = AResp(r, "login", 401, FALSE)
              /\ UNCHANGED <<users, issued>>
         ELSE LET u == CHOOSE x \in found : TRUE IN
              /\ issued' = issued \cup {Sign(u, clock)}
              /\ users' = [users EXCEPT ![u] =
                             SaveUser(@, [@ EXCEPT !.lastActive = clock], {"lastActive"})]
              /\ aresp' = AResp(r, "login", 200, TRUE)
  /\ UNCHANGED <<clock, nextUid, pwSet, areq>>
  /\ UNCHANGED <<goalVars, errVars, infraVars, chatVars>>

\* auth middleware up to "await User.findById(...)" and the status check
AuthCheck(r, header) ==
  /\ areq[r].pc = "idle"
  /\ LET token == ExtractToken(header) IN
       IF HeaderMissing(header) \/ token = NoToken
            \/ Verify(token, clock) # "ok" \/ token.userId \notin DOMAIN users
         THEN /\ aresp' = AResp(r, "auth", 401, FALSE)
              /\ UNCHANGED areq
         ELSE IF DocGet(users[token.userId], "status") \in {"suspended", "deleted"}
           THEN /\ aresp' = AResp(r, "auth", 403, FALSE)
                /\ UNCHANGED areq
           ELSE /\ areq' = [areq EXCEPT ![r] = [IdleUserReq EXCEPT !.pc = "auth_save",
                              !.route = "auth", !.token = token, !.uid = token.userId]]
                /\ aresp' = NoAResp
  /\ UNCHANGED <<clock, users, nextUid, issued, pwSet>>
  /\ UNCHANGED <<goalVars, errVars, infraVars, chatVars>>

\* auth middleware: user.metrics.lastActive = new Date(); await user.save();
\* req.user = user; next().  Saving a document that was deleted meanwhile
\* throws and is answered 500.  After next() the slot is in the handler of
\* the route the request was sent to, one of the user routes below.
AuthSave(r) ==
  /\ areq[r].pc = "auth_save"
  /\ LET u == areq[r].uid IN
       IF u \in DOMAIN users
         THEN /\ users' = [users EXCEPT ![u] =
                   SaveUser(@, [@ EXCEPT !.password = Unselected, !.lastActive = clock],
                            {"lastActive"})]
              /\ areq' = [areq EXCEPT ![r].pc = "handler"]
              /\ aresp' = NoAResp
         ELSE /\ aresp' = AResp(r, "auth", 500, FALSE)
              /\ areq' = [areq EXCEPT ![r] = IdleUserReq]
              /\ UNCHANGED users
  /\ UNCHANGED <<clock, nextUid, issued, pwSet>>
  /\ UNCHANGED <<goalVars, errVars, infraVars, chatVars>>

\* optionalAuth: attaches the user when the token verifies and the account
\* is active, and calls next() in every case
OptionalAuth(r, header) ==
  /\ areq[r].pc = "idle"
  /\ LET token == ExtractToken(header)
         attach == /\ ~HeaderMissing(header) /\ token # NoToken
                   /\ Verify(token, clock) = "ok"
                   /\ token.userId \in DOMAIN users
                   /\ DocGet(users[token.userId], "status") \notin {"suspended", "deleted"}
     IN areq' = [areq EXCEPT ![r] = [IdleUserReq EXCEPT !.pc = "optional_handler",
                    !.route = "optional",
                    !.token = IF attach THEN token ELSE NoToken,
                    !.uid = IF attach THEN token.userId ELSE 0]]
  /\ aresp' = NoAResp
  /\ UNCHANGED <<clock, users, nextUid, issued, pwSet>>
  /\ UNCHANGED <<goalVars, errVars, infraVars, chatVars>>

\* the handler behind optionalAuth answers
OptionalHandler(r) ==
  /\ areq[r].pc = "optional_handler"
  /\ areq' = [areq EXCEPT ![r] = IdleUserReq]
  /\ aresp' = AResp(r, "optional", 200, TRUE)
  /\ UNCHANGED <<clock, users, nextUid, issued, pwSet>>
  /\ UNCHANGED <<goalVars, errVars, infraVars, chatVars>>

\* PATCH /api/users/profile (body: a name, or a key that is not allowed)
Profile(r, bodyAllowed, name) ==
  /\ areq[r].pc = "handler"
  /\ LET u == areq[r].uid IN
       IF ~bodyAllowed
         THEN /\ aresp' = AResp(r, "profile", 400, FALSE)
              /\ UNCHANGED users
         ELSE IF u \notin DOMAIN users
           THEN /\ aresp' = AResp(r, "profile", 404, FALSE)
                /\ UNCHANGED users
           ELSE /\ users' = [users EXCEPT ![u] =
                     SaveUser(@, [@ EXCEPT !.name = name],
                              IF name # @.name THEN {"name"} ELSE {})]
                /\ aresp' = AResp(r, "profile", 200, TRUE)
  /\ areq' = [areq EXCEPT ![r] = IdleUserReq]
  /\ UNCHANGED <<clock, nextUid, issued, pwSet>>
  /\ UNCHANGED <<goalVars, errVars, infraVars, chatVars>>

\* PATCH /api/users/password: the schema defines no comparePassword method,
\* so the call throws a TypeError that the catch block answers with 500.
Password(r, currentPassword, newPassword) ==
  /\ areq[r].pc = "handler"
  /\ aresp' = IF areq[r].uid \notin DOMAIN users
                THEN AResp(r, "password", 404, FALSE)
                ELSE AResp(r, "password", 500, FALSE)
  /\ areq' = [areq EXCEPT ![r] = IdleUserReq]
  /\ UNCHANGED <<clock, users, nextUid, issued, pwSet>>
  /\ UNCHANGED <<goalVars, errVars, infraVars, chatVars>>

\* POST /api/users/avatar
Avatar(r, hasFile) ==
  /\ areq[r].pc = "handler"
  /\ LET u == areq[r].uid IN
       IF ~hasFile
         THEN /\ aresp' = AResp(r, "avatar", 400, FALSE)
              /\ UNCHANGED users
         ELSE IF u \notin DOMAIN users
           THEN /\ aresp' = AResp(r, "avatar", 404, FALSE)
                /\ UNCHANGED users
           ELSE /\ users' = [users EXCEPT ![u] =
                     SaveUser(@, [@ EXCEPT !.avatar = "file"], {"avatar"})]
                /\ aresp' = AResp(r, "avatar", 200, TRUE)
  /\ areq' = [areq EXCEPT ![r] = IdleUserReq]
  /\ UNCHANGED <<clock, nextUid, issued, pwSet>>
  /\ UNCHANGED <<goalVars, errVars, infraVars, chatVars>>

\* DELETE /api/users/profile: with a password in the body the missing
\* comparePassword throws (500); without one the account, its goals and its
\* messages are deleted.
DeleteAccount(r, withPassword) ==
  /\ areq[r].pc = "handler"
  /\ LET u == areq[r].uid IN
       IF u \notin DOMAIN users
         THEN /\ aresp' = AResp(r, "delete", 404, FALSE)
              /\ UNCHANGED <<users, pwSet, goals, msgs>>
         ELSE IF withPassword
           THEN /\ aresp' = AResp(r, "delete", 500, FALSE)
                /\ UNCHANGED <<users, pwSet, goals, msgs>>
           ELSE /\ users' = Drop(users, u)
                /\ pwSet' = Drop(pwSet, u)
                /\ goals' = [g \in {x \in DOMAIN goals : goals[x].userId # u} |-> goals[g]]
                /\ msgs' = [m \in {x \in DOMAIN msgs : msgs[x]["userId"] # u} |-> msgs[m]]
                /\ aresp' = AResp(r, "delete", 200, TRUE)
  /\ areq' = [areq EXCEPT ![r] = IdleUserReq]
  /\ UNCHANGED <<clock, nextUid, issued>>
  /\ UNCHANGED <<now, metrics, greq, gresp, errVars, infraVars, nextMid, vectors, creq, cresp>>

\* An operator marks an account suspended or deleted in the database.
SetAccountStatus(u, status) ==
  /\ u \in DOMAIN users
  /\ users[u].status # status
  /\ users' = [users EXCEPT ![u].status = status]
  /\ aresp' = NoAResp
  /\ UNCHANGED <<clock, nextUid, issued, pwSet, areq>>
  /\ UNCHANGED <<goalVars, errVars, infraVars, chatVars>>

InitUsers ==
  /\ clock = 1
  /\ users = << >>
  /\ nextUid = 0
  /\ issued = {}
  /\ pwSet = << >>
  /\ areq = [r \in ReqIds |-> IdleUserReq]
  /\ aresp = NoAResp

\* ---------------------------------------------------------------------------
\* Central error handler (middleware/errorHandler.js)
\* ---------------------------------------------------------------------------
\* An error object as the handler sees it: statusCode 0 and responseStatus 0
\* stand for an absent property; name is an own enumerable property only when
\* nameOwn holds (otherwise it is inherited and the spread does not copy it).
ErrorNames == {"Error", "CastError", "ValidationError", "JsonWebTokenError",
               "TokenExpiredError", "MongoNetworkError", "MongoTimeoutError"}
ErrorInputs ==
  [message : {"boom"}, statusCode : {0, 400, 429, 500}, isOperational : BOOLEAN,
   name : ErrorNames, nameOwn : BOOLEAN, code : {0, 11000},
   type : {"none", "RateLimitError"}, responseStatus : {0, 400, 401, 429, 502, 418}]
NodeEnvs == {"development", "production"}
Urls == {"/api/goals", "/dashboard"}

GenericMessage == "Something went wrong on our end. Please try again later."

\* new AppError(message, statusCode): operational, no own name
AppError(message, statusCode) ==
  [message |-> message, statusCode |-> statusCode, isOperational |-> TRUE,
   name |-> "Error", nameOwn |-> FALSE, code |-> 0, type |-> "none", responseStatus |-> 0]

\* let error = { ...err }; error.message = err.message
SpreadCopy(err) == [err EXCEPT !.name = IF err.nameOwn THEN @ ELSE "undefined"]

handleCastErrorDB(err) == AppError("Invalid path: value", 400)
handleDuplicateFieldsDB(err) == AppError("field 'value' already exists. Please use another value.", 400)
handleValidationErrorDB(err) == AppError("Invalid input data: ...", 400)
handleJWTError == AppError("Invalid token. Please log in again.", 401)
handleJWTExpiredError == AppError("Your token has expired. Please log in again.", 401)
handleDBConnectionError(err) ==
  AppError("Database temporarily unavailable. Please try again later.", 503)
handleRateLimitError(err) ==
  AppError("Too many requests from this IP. Please try again later.", 429)
handleOpenAIError(err) ==
  IF err.responseStatus = 400 THEN AppError("Invalid request to AI service.", 400)
  ELSE IF err.responseStatus = 401 THEN AppError("AI service authentication failed.", 500)
  ELSE IF err.responseStatus = 429
    THEN AppError("AI service rate limit exceeded. Please try again later.", 429)
  ELSE IF err.responseStatus \in {500, 502, 503}
    THEN AppError("AI service temporarily unavailable.", 503)
  ELSE AppError("AI service temporarily unavailable. Please try again later.", 503)

\* the chain of "if (...) error = handle...(error)" statements, in order
TranslateError(e0) ==
  LET e1 == IF e0.name = "CastError" THEN handleCastErrorDB(e0) ELSE e0
      e2 == IF e1.code = 11000 THEN handleDuplicateFieldsDB(e1) ELSE e1
      e3 == IF e2.name = "ValidationError" THEN handleValidationErrorDB(e2) ELSE e2
      e4 == IF e3.name = "JsonWebTokenError" THEN handleJWTError ELSE e3
      e5 == IF e4.name = "TokenExpiredError" THEN handleJWTExpiredError ELSE e4
      e6 == IF e5.name \in {"MongoNetworkError", "MongoTimeoutError"}
              THEN handleDBConnectionError(e5) ELSE e5
      e7 == IF e6.type = "RateLimitError" THEN handleRateLimitError(e6) ELSE e6
      e8 == IF e7.responseStatus # 0 THEN handleOpenAIError(e7) ELSE e7
  IN e8

\* res.status(code).json({ success: false, error, stack?, details? }) or
\* res.status(code).render('error', { msg })
ErrResponse(kind, code, msg, stack, details) ==
  [kind |-> kind, status |-> code, error |-> msg, stack |-> stack, details |-> details]
NoErrResponse == ErrResponse("none", 0, "", FALSE, FALSE)

sendErrorDev(err, url) ==
  IF url = "/api/goals"
    THEN ErrResponse("json", err.statusCode, err.message, TRUE, TRUE)
    ELSE ErrResponse("render", err.statusCode, err.message, TRUE, TRUE)

\* The production sender without the isOperational test.
sendErrorProd_Unmasked(err, url) ==
  IF url = "/api/goals"
    THEN ErrResponse("json", err.statusCode, err.message, FALSE, FALSE)
    ELSE ErrResponse("render", err.statusCode, err.message, FALSE, FALSE)

sendErrorProd(err, url) ==
  IF url = "/api/goals"
    THEN IF err.isOperational
           THEN ErrResponse("json", err.statusCode, err.message, FALSE, FALSE)
           ELSE ErrResponse("json", 500, GenericMessage, FALSE, FALSE)
    ELSE IF err.isOperational
           THEN ErrResponse("render", err.statusCode, err.message, FALSE, FALSE)
           ELSE ErrResponse("render", err.statusCode, "Please try again later.", FALSE, FALSE)

globalErrorHandler(err, url, env) ==
  LET e == [err EXCEPT !.statusCode = IF @ = 0 THEN 500 ELSE @]
  IN IF env = "development"
       THEN sendErrorDev(e, url)
       ELSE sendErrorProd(TranslateError(SpreadCopy(e)), url)

\* app.use(globalErrorHandler)
HandleError ==
  /\ errRes = NoErrResponse
  /\ errRes' = globalErrorHandler(errIn.err, errIn.url, nodeEnv)
  /\ UNCHANGED <<errIn, nodeEnv>>
  /\ UNCHANGED <<goalVars, userVars, chatVars, infraVars>>

\* No error is being handled.
InitErr ==
  /\ nodeEnv = "production"
  /\ errIn = [err |-> AppError("none", 0), url |-> "/dashboard"]
  /\ errRes = ErrResponse("render", 0, "none", FALSE, FALSE)

\* An error raised by a request reaches the handler, in either environment.
InitErrRaised ==
  /\ nodeEnv \in NodeEnvs
  /\ errIn \in [err : ErrorInputs, url : Urls]
  /\ errRes = NoErrResponse

NextErr == HandleError

\* ---------------------------------------------------------------------------
\* Message model (models/Message.js) and chat routes (routes/chat.js)
\* ---------------------------------------------------------------------------
\* The paths messageSchema declares (timestamps: true adds the last two).  A
\* stored message is a function from these paths to values.
MessagePaths == {"userId", "conversationId", "type", "content", "metadata.intent",
                 "embedding", "createdAt", "updatedAt"}
\* The paths POST /api/chat/feedback sets.
FeedbackPaths == {"metadata.userRating", "metadata.userFeedback", "metadata.feedbackDate"}

\* message texts of a request body (the empty one fails "required")
ContentInputs == {"hello", ""}
\* req.body.conversationId: absent (0) or given
ConvInputs == {0, 1}
\* conv_${Date.now()}
GeneratedConv(t) == 100 + t
RatingInputs == {4}
FeedbackInputs == {"helpful"}

\* new Message({ userId, conversationId, type, content, metadata })
NewMessage(u, conv, type, content, intent, hasEmbedding, t) ==
  [p \in MessagePaths |->
     CASE p = "userId" -> u
       [] p = "conversationId" -> conv
       [] p = "type" -> type
       [] p = "content" -> content
       [] p = "metadata.intent" -> intent
       [] p = "embedding" -> hasEmbedding
       [] p = "createdAt" -> t
       [] p = "updatedAt" -> t]

\* Schema validation run by save(): content is required.
MessageValid(doc) == doc["content"] # ""

\* the $set document of the feedback route
FeedbackUpdate(rating, feedback, date) ==
  [p \in FeedbackPaths |->
     CASE p = "metadata.userRating" -> rating
       [] p = "metadata.userFeedback" -> feedback
       [] p = "metadata.feedbackDate" -> date]

\* A feedback update that writes the feedback text over the content.
FindOneAndUpdate_Content(doc, set, t) ==
  [p \in DOMAIN doc |->
     IF p = "content" THEN set["metadata.userFeedback"]
     ELSE IF p = "updatedAt" THEN t ELSE doc[p]]

\* Message.findOneAndUpdate(filter, { $set }, { new: true }) on the matched
\* document: the schema is strict, so the paths of $set that it does not
\* declare are dropped, and timestamps sets updatedAt.
FindOneAndUpdate(doc, set, t) ==
  [p \in DOMAIN doc \cup (DOMAIN set \cap MessagePaths) |->
     IF p = "updatedAt" THEN t
     ELSE IF p \in DOMAIN set \cap MessagePaths THEN set[p]
     ELSE doc[p]]

\* generateCoachingResponse without the catch block's fallback
CoachingResponse_NoFallback(completionOk) == [content |-> "reply", intent |-> "advice"]

\* generateCoachingResponse: the completion, or getFallbackResponse when the
\* completion call fails
CoachingResponse(completionOk) ==
  IF completionOk THEN [content |-> "reply", intent |-> "advice"]
  ELSE [content |-> "fallback reply", intent |-> "fallback"]

CResp(r, route, code, ok) == [req |-> r, route |-> route, status |-> code, ok |-> ok]
NoCResp == [req |-> 0, route |-> "none", status |-> 0, ok |-> FALSE]

IdleChatReq == [pc |-> "idle", userId |-> 0, conv |-> 0, aiId |-> 0,
                content |-> "", intent |-> "none", embedded |-> FALSE]

\* The clock counts the stored events; a request that will store one is
\* accepted while the stored and the pending events stay within the bound.
ChatAccepting(n) ==
  now + n + 2 * Cardinality({r \in ReqIds : creq[r].pc = "chat_reply"})
      + Cardinality({r \in ReqIds : creq[r].pc = "chat_save_ai"}) <= MaxChatEvents + 1

\* POST /api/chat/message up to "await userMessage.save()"
ChatSaveUser(r, u, content, conv, embeddingOk) ==
  /\ creq[r].pc = "idle"
  /\ ChatAccepting(2)
  /\ LET c == IF conv # 0 THEN conv ELSE GeneratedConv(now)
         doc == NewMessage(u, c, "user", content, "none", embeddingOk, now)
     IN IF MessageValid(doc)
          THEN /\ msgs' = Put(msgs, nextMid + 1, doc)
               /\ nextMid' = nextMid + 1
               /\ creq' = [creq EXCEPT ![r] = [IdleChatReq EXCEPT !.pc = "chat_reply",
                              !.userId = u, !.conv = c]]
               /\ cresp' = NoCResp
               /\ Tick
          ELSE /\ cresp' = CResp(r, "message", 500, FALSE)
               /\ UNCHANGED <<msgs, nextMid, creq, now>>
  /\ UNCHANGED vectors
  /\ UNCHANGED <<goals, metrics, greq, gresp, userVars, errVars, infraVars>>

\* POST /api/chat/message: generateCoachingResponse, new Message for the
\* reply, its embedding and VectorStore.storeConversation
ChatReply(r, completionOk, embeddingOk) ==
  /\ creq[r].pc = "chat_reply"
  /\ LET ai == CoachingResponse(completionOk)
         id == nextMid + 1
     IN /\ nextMid' = id
        /\ vectors' = IF embeddingOk
                        THEN vectors \cup {[userId |-> creq[r].userId, messageId |-> id]}
                        ELSE vectors
        /\ creq' = [creq EXCEPT ![r].pc = "chat_save_ai", ![r].aiId = id,
                                ![r].content = ai.content, ![r].intent = ai.intent,
                                ![r].embedded = embeddingOk]
  /\ cresp' = NoCResp
  /\ UNCHANGED msgs
  /\ UNCHANGED <<goalVars, userVars, errVars, infraVars>>

\* POST /api/chat/message: await aiMessage.save() and the response; a failed
\* save is answered 500 by the catch block
ChatSaveAi(r, saveOk) ==
  /\ creq[r].pc = "chat_save_ai"
  /\ IF saveOk
       THEN /\ msgs' = Put(msgs, creq[r].aiId,
                           NewMessage(creq[r].userId, creq[r].conv, "ai", creq[r].content,
                                      creq[r].intent, creq[r].embedded, now))
            /\ cresp' = CResp(r, "message", 200, TRUE)
            /\ Tick
       ELSE /\ cresp' = CResp(r, "message", 500, FALSE)
            /\ UNCHANGED <<msgs, now>>
  /\ creq' = [creq EXCEPT ![r] = IdleChatReq]
  /\ UNCHANGED <<nextMid, vectors>>
  /\ UNCHANGED <<goals, metrics, greq, gresp, userVars, errVars, infraVars>>

\* GET /api/chat/history
ChatHistory(r, u) ==
  /\ creq[r].pc = "idle"
  /\ cresp' = CResp(r, "history", 200, TRUE)
  /\ UNCHANGED <<msgs, nextMid, vectors, creq>>
  /\ UNCHANGED <<goalVars, userVars, errVars, infraVars>>

\* POST /api/chat/feedback
ChatFeedback(r, u, messageId, rating, feedback) ==
  /\ creq[r].pc = "idle"
  /\ IF messageId \in DOMAIN msgs /\ msgs[messageId]["userId"] = u
       THEN /\ ChatAccepting(1)
            /\ msgs' = [msgs EXCEPT ![messageId] =
                          FindOneAndUpdate(@, FeedbackUpdate(rating, feedback, now), now)]
            /\ cresp' = CResp(r, "feedback", 200, TRUE)
            /\ Tick
       ELSE /\ cresp' = CResp(r, "feedback", 404, FALSE)
            /\ UNCHANGED <<msgs, now>>
  /\ UNCHANGED <<nextMid, vectors, creq>>
  /\ UNCHANGED <<goals, metrics, greq, gresp, userVars, errVars, infraVars>>

InitChat ==
  /\ msgs = << >>
  /\ nextMid = 0
  /\ vectors = {}
  /\ creq = [r \in ReqIds |-> IdleChatReq]
  /\ cresp = NoCResp

NextChat ==
  \/ \E r \in ReqIds, u \in UserIds, c \in ContentInputs, v \in ConvInputs, e \in BOOLEAN :
       ChatSaveUser(r, u, c, v, e)
  \/ \E r \in ReqIds, a \in BOOLEAN, e \in BOOLEAN : ChatReply(r, a, e)
  \/ \E r \in ReqIds, ok \in BOOLEAN : ChatSaveAi(r, ok)
  \/ \E r \in ReqIds, u \in UserIds : ChatHistory(r, u)
  \/ \E r \in ReqIds, u \in UserIds, m \in 1..MaxChatEvents, g \in RatingInputs,
        f \in FeedbackInputs : ChatFeedback(r, u, m, g, f)

\* ---------------------------------------------------------------------------
\* bruteForceProtection (middleware/security.js)
\* ---------------------------------------------------------------------------
\* The options of one instance of the middleware, in clock units; as with the
\* defaults (5 attempts, 15 and 30 minutes) the window is shorter than the
\* block.
maxAttempts == 2
windowMs == 1
blockDuration == 2

\* req.ip + ':' + req.body.email
BruteKeys == 1..MaxBruteKeys
BruteTimes == 0..MaxBruteClock
\* the status the protected handler's response finishes with
HandlerStatuses == {200, 401, 403, 500}

\* blocked.has(key) && now < blockInfo.until
IsBlocked(k, t) == k \in DOMAIN blocked /\ t < blocked[k].until

\* attempts.get(key) || { count: 0, firstAttempt: now }
AttemptInfo(k, t) == IF k \in DOMAIN attempts THEN attempts[k]
                     ELSE [count |-> 0, firstAttempt |-> t]

\* the listener's update of attemptInfo for a failure of a request that
\* arrived at t
CountFailure(info, t) ==
  IF t - info.firstAttempt > windowMs
    THEN [count |-> 1, firstAttempt |-> t]
    ELSE [info EXCEPT !.count = @ + 1]

IsFailure(status) == status = 401 \/ status = 403
IsSuccess(status) == status >= 200 /\ status < 300

\* Observers, not state of the middleware: streak counts like attempts but is
\* not deleted when the block is set; sinceUnblock counts the failures that
\* finished since the key's block was last removed.  Both stop at
\* maxAttempts + 1.
NoStreak == [count |-> 0, firstAttempt |-> 0]
StreakAfter(info, t) ==
  IF info.count = 0 THEN [count |-> 1, firstAttempt |-> t]
  ELSE IF t - info.firstAttempt > windowMs THEN [count |-> 1, firstAttempt |-> t]
  ELSE [info EXCEPT !.count = Min(@ + 1, maxAttempts + 1)]

InFlight(k) == LET sum[t \in -1..MaxBruteClock] == IF t = -1 THEN 0 ELSE sum[t - 1] + inflight[k][t]
               IN sum[MaxBruteClock]

BResp(k, code, passed) == [key |-> k, status |-> code, next |-> passed]
NoBResp == [key |-> 0, status |-> 0, next |-> FALSE]

\* A request for key k arrives: the block check, then res.on('finish', ...)
\* and next().
BruteArrive(k) ==
  /\ IF IsBlocked(k, bclock)
       THEN /\ bresp' = BResp(k, 429, FALSE)
            /\ UNCHANGED <<blocked, inflight, streak, sinceUnblock>>
       ELSE /\ InFlight(k) < MaxBruteReqs
            /\ blocked' = Drop(blocked, k)
            /\ inflight' = [inflight EXCEPT ![k][bclock] = @ + 1]
            /\ bresp' = BResp(k, 0, TRUE)
            /\ IF k \in DOMAIN blocked
                 THEN /\ streak' = [streak EXCEPT ![k] = NoStreak]
                      /\ sinceUnblock' = [sinceUnblock EXCEPT ![k] = 0]
                 ELSE UNCHANGED <<streak, sinceUnblock>>
  /\ UNCHANGED <<bclock, attempts>>
  /\ UNCHANGED <<goalVars, userVars, errVars, chatVars, lifeVars, mwVars, clientVars>>

\* The response of a request for key k that arrived at t finishes with the
\* given status: the 'finish' listener.
BruteFinish(k, t, status) ==
  /\ inflight[k][t] > 0
  /\ inflight' = [inflight EXCEPT ![k][t] = @ - 1]
  /\ IF IsFailure(status)
       THEN LET info == CountFailure(AttemptInfo(k, t), t) IN
              /\ IF info.count >= maxAttempts
                   THEN /\ blocked' = Put(blocked, k, [until |-> t + blockDuration])
                        /\ attempts' = Drop(attempts, k)
                   ELSE /\ attempts' = Put(attempts, k, info)
                        /\ UNCHANGED blocked
              /\ streak' = [streak EXCEPT ![k] = StreakAfter(@, t)]
              /\ sinceUnblock' = [sinceUnblock EXCEPT ![k] = Min(@ + 1, maxAttempts + 1)]
       ELSE IF IsSuccess(status)
         THEN /\ attempts' = Drop(attempts, k)
              /\ streak' = [streak EXCEPT ![k] = NoStreak]
              /\ UNCHANGED <<blocked, sinceUnblock>>
         ELSE UNCHANGED <<attempts, blocked, streak, sinceUnblock>>
  /\ bresp' = BResp(k, status, FALSE)
  /\ UNCHANGED bclock
  /\ UNCHANGED <<goalVars, userVars, errVars, chatVars, lifeVars, mwVars, clientVars>>

\* Date.now() advances
BruteTick ==
  /\ bclock < MaxBruteClock
  /\ bclock' = bclock + 1
  /\ bresp' = NoBResp
  /\ UNCHANGED <<attempts, blocked, inflight, streak, sinceUnblock>>
  /\ UNCHANGED <<goalVars, userVars, errVars, chatVars, lifeVars, mwVars, clientVars>>

InitBrute ==
  /\ bclock = 0
  /\ attempts = << >>
  /\ blocked = << >>
  /\ inflight = [k \in BruteKeys |-> [t \in BruteTimes |-> 0]]
  /\ bresp = NoBResp
  /\ streak = [k \in BruteKeys |-> NoStreak]
  /\ sinceUnblock = [k \in BruteKeys |-> 0]

NextBrute ==
  \/ \E k \in BruteKeys : BruteArrive(k)
  \/ \E k \in BruteKeys, t \in BruteTimes, s \in HandlerStatuses : BruteFinish(k, t, s)
  \/ BruteTick

\* ---------------------------------------------------------------------------
\* Process lifecycle (server.js): startServer, gracefulShutdown and the
\* process event handlers
\* ---------------------------------------------------------------------------
NotExited == [done |-> FALSE, code |-> 0]
\* process.exit(code)
Exited(code) == [done |-> TRUE, code |-> code]
\* the exit status of a process ended by a signal's default action
KilledBySignal == 130

SignalNames == {"SIGTERM", "SIGINT"}
ProcessErrors == {"uncaughtException", "unhandledRejection"}

\* REDIS_URL is not set, or the client connects, or connecting fails; the
\* client object exists from "new Redis(...)" on, also when connecting failed.
RedisOutcomes == {"skip", "ok", "fail"}

\* if (global.redisClient), with the test always false
HasRedisClient_Never(r) == FALSE

\* if (global.redisClient)
HasRedisClient(r) == r \in {"connected", "failed"}

\* connectRedis's catch block exiting like connectDatabase's
RedisFailureExits_Yes == TRUE

\* connectRedis's catch block: "Don't exit on Redis failure, it's optional"
RedisFailureExits == FALSE

\* no force timer is armed
ArmTimer_None(n) == n

\* setTimeout(() => process.exit(1), 10000)
ArmTimer(n) == n + 1

\* connectDatabase: await mongoose.connect(...); the catch block exits
connectDatabase(ok) ==
  /\ ~exit.done /\ phase = "connect_db"
  /\ IF ok THEN /\ db' = "connected"
                /\ phase' = "connect_redis"
                /\ UNCHANGED exit
           ELSE /\ exit' = Exited(1)
                /\ UNCHANGED <<db, phase>>
  /\ UNCHANGED <<http, redis, closeCallbacks, asyncCb, timers, signals, services>>
  /\ UNCHANGED <<goalVars, userVars, errVars, chatVars, bruteVars, mwVars, clientVars>>

\* connectRedis
connectRedis(outcome) ==
  /\ ~exit.done /\ phase = "connect_redis"
  /\ redis' = CASE outcome = "skip" -> "none"
                [] outcome = "ok" -> "connected"
                [] outcome = "fail" -> "failed"
  /\ IF outcome = "fail" /\ RedisFailureExits
       THEN exit' = Exited(1) /\ UNCHANGED phase
       ELSE phase' = "init_services" /\ UNCHANGED exit
  /\ UNCHANGED <<http, db, closeCallbacks, asyncCb, timers, signals, services>>
  /\ UNCHANGED <<goalVars, userVars, errVars, chatVars, bruteVars, mwVars, clientVars>>

\* initializeServices: a failure of the vector store is caught and logged
initializeServices(ok) ==
  /\ ~exit.done /\ phase = "init_services"
  /\ phase' = "listen"
  /\ services' = IF ok THEN "ready" ELSE "failed"
  /\ UNCHANGED <<http, db, redis, exit, closeCallbacks, asyncCb, timers, signals>>
  /\ UNCHANGED <<goalVars, userVars, errVars, chatVars, bruteVars, mwVars, clientVars>>

\* app.listen(PORT, HOST, ...), then the SIGTERM, SIGINT, uncaughtException
\* and unhandledRejection listeners of startServer are registered; a listen
\* error (EACCES, EADDRINUSE) exits with code 1
listen(ok) ==
  /\ ~exit.done /\ phase = "listen"
  /\ IF ok THEN /\ http' = "listening"
                /\ phase' = "running"
                /\ UNCHANGED exit
           ELSE /\ exit' = Exited(1)
                /\ UNCHANGED <<http, phase>>
  /\ UNCHANGED <<db, redis, closeCallbacks, asyncCb, timers, signals, services>>
  /\ UNCHANGED <<goalVars, userVars, errVars, chatVars, bruteVars, mwVars, clientVars>>

\* The 'close' event of the server: the callbacks given to server.close run
\* in the order they were registered.  The callback of the call that closed
\* the handle starts "await mongoose.connection.close()"; the callback of a
\* call made when the server was no longer running gets
\* ERR_SERVER_NOT_RUNNING and calls process.exit(1).
EmitClose(cbs) ==
  /\ closeCallbacks' = << >>
  /\ IF \E i \in DOMAIN cbs : cbs[i] = "ok"
       THEN db' = "closing" /\ asyncCb' = "db_close"
       ELSE UNCHANGED <<db, asyncCb>>
  /\ IF \E i \in DOMAIN cbs : cbs[i] = "err"
       THEN exit' = Exited(1)
       ELSE UNCHANGED exit

\* gracefulShutdown(signal): server.close(callback) and the force timer.  On
\* a server that is already closed the 'close' event is emitted again on the
\* next tick, before any other event.
gracefulShutdown ==
  /\ timers' = ArmTimer(timers)
  /\ CASE http = "listening" ->
            /\ http' = "closing"
            /\ closeCallbacks' = Append(closeCallbacks, "ok")
            /\ UNCHANGED <<db, asyncCb, exit>>
       [] http = "closing" ->
            /\ closeCallbacks' = Append(closeCallbacks, "err")
            /\ UNCHANGED <<http, db, asyncCb, exit>>
       [] http = "closed" ->
            /\ EmitClose(Append(closeCallbacks, "err"))
            /\ UNCHANGED http

\* A signal is delivered.  Before startServer registered its listeners
\* SIGTERM only reaches the logging listener of setupProcessErrorHandlers and
\* SIGINT has its default action.
Signal(sig) ==
  /\ ~exit.done
  /\ signals < MaxSignals
  /\ signals' = signals + 1
  /\ IF phase = "running"
       THEN gracefulShutdown
       ELSE /\ exit' = IF sig = "SIGINT" THEN Exited(KilledBySignal) ELSE exit
            /\ UNCHANGED <<http, db, closeCallbacks, asyncCb, timers>>
  /\ UNCHANGED <<phase, redis, services>>
  /\ UNCHANGED <<goalVars, userVars, errVars, chatVars, bruteVars, mwVars, clientVars>>

\* The last open connection ends: the closing server emits 'close'.
ServerClosed ==
  /\ ~exit.done /\ http = "closing"
  /\ http' = "closed"
  /\ EmitClose(closeCallbacks)
  /\ UNCHANGED <<phase, redis, timers, signals, services>>
  /\ UNCHANGED <<goalVars, userVars, errVars, chatVars, bruteVars, mwVars, clientVars>>

\* "await mongoose.connection.close()" settles
DatabaseClosed(ok) ==
  /\ ~exit.done /\ asyncCb = "db_close"
  /\ IF ~ok
       THEN /\ exit' = Exited(1)
            /\ UNCHANGED <<db, redis, asyncCb>>
       ELSE /\ db' = "closed"
            /\ IF HasRedisClient(redis)
                 THEN /\ redis' = "closing"
                      /\ asyncCb' = "redis_quit"
                      /\ UNCHANGED exit
                 ELSE /\ exit' = Exited(0)
                      /\ UNCHANGED <<redis, asyncCb>>
  /\ UNCHANGED <<phase, http, closeCallbacks, timers, signals, services>>
  /\ UNCHANGED <<goalVars, userVars, errVars, chatVars, bruteVars, mwVars, clientVars>>

\* "await global.redisClient.quit()" settles
RedisClosed(ok) ==
  /\ ~exit.done /\ asyncCb = "redis_quit"
  /\ IF ok THEN redis' = "closed" /\ exit' = Exited(0)
           ELSE exit' = Exited(1) /\ UNCHANGED redis
  /\ UNCHANGED <<phase, http, db, closeCallbacks, asyncCb, timers, signals, services>>
  /\ UNCHANGED <<goalVars, userVars, errVars, chatVars, bruteVars, mwVars, clientVars>>

\* the force timer of a gracefulShutdown call fires
ForceTimer ==
  /\ ~exit.done /\ timers > 0
  /\ exit' = Exited(1)
  /\ UNCHANGED <<phase, http, db, redis, closeCallbacks, asyncCb, timers, signals, services>>
  /\ UNCHANGED <<goalVars, userVars, errVars, chatVars, bruteVars, mwVars, clientVars>>

\* The listeners of 'uncaughtException' and 'unhandledRejection' in the order
\* they were registered: setupProcessErrorHandlers runs first in startServer,
\* the listeners calling gracefulShutdown are added after listen.
ErrorListeners(p) == IF p = "running" THEN <<"exit", "gracefulShutdown">> ELSE <<"exit">>

\* An uncaught exception or unhandled rejection is raised: the listeners run
\* in order, and process.exit in a listener ends the process at once.
ProcessError(kind) ==
  /\ ~exit.done
  /\ IF ErrorListeners(phase)[1] = "exit"
       THEN /\ exit' = Exited(1)
            /\ UNCHANGED <<http, db, closeCallbacks, asyncCb, timers>>
       ELSE gracefulShutdown
  /\ UNCHANGED <<phase, redis, signals, services>>
  /\ UNCHANGED <<goalVars, userVars, errVars, chatVars, bruteVars, mwVars, clientVars>>

InitLife ==
  /\ phase = "connect_db"
  /\ http = "none"
  /\ db = "none"
  /\ redis = "none"
  /\ services = "none"
  /\ exit = NotExited
  /\ closeCallbacks = << >>
  /\ asyncCb = "none"
  /\ timers = 0
  /\ signals = 0

NextLife ==
  \/ \E ok \in BOOLEAN : connectDatabase(ok)
  \/ \E o \in RedisOutcomes : connectRedis(o)
  \/ \E ok \in BOOLEAN : initializeServices(ok)
  \/ \E ok \in BOOLEAN : listen(ok)
  \/ \E s \in SignalNames : Signal(s)
  \/ ServerClosed
  \/ \E ok \in BOOLEAN : DatabaseClosed(ok)
  \/ \E ok \in BOOLEAN : RedisClosed(ok)
  \/ ForceTimer
  \/ \E k \in ProcessErrors : ProcessError(k)

\* ---------------------------------------------------------------------------
\* The middleware chain in front of the routes (server.js)
\* ---------------------------------------------------------------------------
Methods == {"GET", "POST", "PUT", "DELETE", "PATCH", "OPTIONS"}
defaultOrigins == {"http://localhost:3000", "http://localhost:3001"}
Origins == {"none", "http://localhost:3000", "http://evil.example"}
ContentTypes ==
  {"none", "application/json", "application/json; charset=utf-8",
   "multipart/form-data; boundary=x", "text/plain"}
allowedTypes == {"application/json", "multipart/form-data"}
optionsSuccessStatus == 200

\* contentType.includes(type) on the header values above
Includes(contentType, type) ==
  <<contentType, type>> \in
    {<<"application/json", "application/json">>,
     <<"application/json; charset=utf-8", "application/json">>,
     <<"multipart/form-data; boundary=x", "multipart/form-data">>}

\* a request: its method, its Origin and Content-Type headers ("none" when
\* absent) and whether its URL or query matches a suspicious pattern
Requests ==
  [method : Methods, origin : Origins, contentType : ContentTypes,
   suspicious : BOOLEAN]

NoRequest ==
  [method |-> "none", origin |-> "none", contentType |-> "none",
   suspicious |-> FALSE]
NoResponse == [status |-> 0, by |-> "none"]
Response(status, by) == [status |-> status, by |-> by]

\* a middleware that answers returns its response, one that calls next()
\* returns NoResponse
suspiciousActivityDetector(req) ==
  IF req.suspicious
    THEN Response(400, "suspiciousActivityDetector")
    ELSE NoResponse

validateContentType(req) ==
  IF req.method # "GET" /\ req.method # "DELETE"
    THEN IF \/ req.contentType = "none"
            \/ ~\E type \in allowedTypes : Includes(req.contentType, type)
           THEN Response(415, "validateContentType")
           ELSE NoResponse
    ELSE NoResponse

\* corsOptions.origin: no Origin header and the allowed origins pass
OriginAllowed(origin) == origin = "none" \/ origin \in defaultOrigins

\* cors(corsOptions): a refused origin goes to the error handler, a
\* preflight is answered with optionsSuccessStatus, anything else goes on
cors(req) ==
  IF ~OriginAllowed(req.origin)
    THEN Response(500, "globalErrorHandler")
    ELSE IF req.method = "OPTIONS"
           THEN Response(optionsSuccessStatus, "cors")
           ELSE NoResponse

\* the middlewares in the order server.js mounts them; helmet, the header
\* setter and the two loggers always call next()
Chain ==
  <<"basicSecurity", "securityHeaders", "httpLogger", "requestLogger",
    "suspiciousActivityDetector", "validateContentType", "cors">>

Apply(name, req) ==
  CASE name = "suspiciousActivityDetector" -> suspiciousActivityDetector(req)
    [] name = "validateContentType" -> validateContentType(req)
    [] name = "cors" -> cors(req)
    [] OTHER -> NoResponse

RECURSIVE RunChain(_, _)
RunChain(i, req) ==
  IF i > Len(Chain)
    THEN Response(200, "routes")
    ELSE IF Apply(Chain[i], req) # NoResponse
           THEN Apply(Chain[i], req)
           ELSE RunChain(i + 1, req)

HandleRequest(req) ==
  /\ mwReq' = req
  /\ mwRes' = RunChain(1, req)
  /\ UNCHANGED <<goalVars, userVars, errVars, chatVars, bruteVars, lifeVars, clientVars>>

InitMw ==
  /\ mwReq = NoRequest
  /\ mwRes = NoResponse

\* ---------------------------------------------------------------------------
\* WebSocketService (frontend services/api.js, as listed in README.md)
\* ---------------------------------------------------------------------------
maxReconnectAttempts == 5
reconnectInterval == 1000

ReadyStates == {"connecting", "open", "closing", "closed"}

RECURSIVE Pow2(_)
Pow2(n) == IF n = 0 THEN 1 ELSE 2 * Pow2(n - 1)

\* reconnectInterval * Math.pow(2, reconnectAttempts - 1)
ReconnectDelay(n) == reconnectInterval * Pow2(n - 1)

\* handleReconnect's guard with the limit left out
CanReconnect_Always(n) == TRUE

\* handleReconnect: reconnectAttempts < maxReconnectAttempts
CanReconnect(n) == n < maxReconnectAttempts

\* the sequence s without its i-th element
RemoveAt(s, i) == [j \in 1..(Len(s) - 1) |-> IF j < i THEN s[j] ELSE s[j + 1]]

\* the body of connect(): without a token it returns; a constructor that
\* throws is caught; otherwise the new socket replaces this.ws, and whatever
\* socket this.ws held keeps its handlers
ConnectBody(ctorOk) ==
  IF hasToken /\ ctorOk
    THEN /\ Len(sockets) < MaxSockets
         /\ sockets' = Append(sockets, "connecting")
         /\ ws' = Len(sockets) + 1
    ELSE UNCHANGED <<sockets, ws>>

\* wsService.connect() called by the application (useWebSocket's effect)
WsConnect(ctorOk) ==
  /\ wsCalls < MaxWsCalls
  /\ wsCalls' = wsCalls + 1
  /\ ConnectBody(ctorOk)
  /\ userDisconnected' = FALSE
  /\ UNCHANGED <<reconnectAttempts, wsTimers, hasToken, sinceOpen>>
  /\ UNCHANGED <<goalVars, userVars, errVars, chatVars, bruteVars, lifeVars, mwVars, anVars, profVars>>

\* a reconnect timer fires: () => this.connect()
WsTimerFires(i, ctorOk) ==
  /\ i \in 1..Len(wsTimers)
  /\ wsTimers' = RemoveAt(wsTimers, i)
  /\ ConnectBody(ctorOk)
  /\ UNCHANGED <<reconnectAttempts, hasToken, wsCalls, sinceOpen, userDisconnected>>
  /\ UNCHANGED <<goalVars, userVars, errVars, chatVars, bruteVars, lifeVars, mwVars, anVars, profVars>>

\* ws.onopen
WsOpen(s) ==
  /\ s \in 1..Len(sockets)
  /\ sockets[s] = "connecting"
  /\ sockets' = [sockets EXCEPT ![s] = "open"]
  /\ reconnectAttempts' = 0
  /\ sinceOpen' = 0
  /\ UNCHANGED <<ws, wsTimers, hasToken, wsCalls, userDisconnected>>
  /\ UNCHANGED <<goalVars, userVars, errVars, chatVars, bruteVars, lifeVars, mwVars, anVars, profVars>>

\* ws.onclose, for a connection that failed, dropped or was closed:
\* emit('disconnected') and handleReconnect()
WsClose(s) ==
  /\ s \in 1..Len(sockets)
  /\ sockets[s] # "closed"
  /\ sockets' = [sockets EXCEPT ![s] = "closed"]
  /\ IF CanReconnect(reconnectAttempts)
       THEN /\ reconnectAttempts' = reconnectAttempts + 1
            /\ wsTimers' = Append(wsTimers, ReconnectDelay(reconnectAttempts + 1))
            /\ sinceOpen' = sinceOpen + 1
       ELSE UNCHANGED <<reconnectAttempts, wsTimers, sinceOpen>>
  /\ UNCHANGED <<ws, hasToken, wsCalls, userDisconnected>>
  /\ UNCHANGED <<goalVars, userVars, errVars, chatVars, bruteVars, lifeVars, mwVars, anVars, profVars>>

\* disconnect(): if (this.ws) { this.ws.close(); this.ws = null; }
WsDisconnect ==
  /\ wsCalls < MaxWsCalls
  /\ wsCalls' = wsCalls + 1
  /\ IF ws # 0
       THEN /\ sockets' = [sockets EXCEPT ![ws] =
                             IF @ \in {"connecting", "open"} THEN "closing" ELSE @]
            /\ ws' = 0
       ELSE UNCHANGED <<sockets, ws>>
  /\ userDisconnected' = TRUE
  /\ UNCHANGED <<reconnectAttempts, wsTimers, hasToken, sinceOpen>>
  /\ UNCHANGED <<goalVars, userVars, errVars, chatVars, bruteVars, lifeVars, mwVars, anVars, profVars>>

\* login and logout store and remove the auth token
WsSetToken(present) ==
  /\ hasToken # present
  /\ hasToken' = present
  /\ UNCHANGED <<ws, reconnectAttempts, sockets, wsTimers, wsCalls, sinceOpen, userDisconnected>>
  /\ UNCHANGED <<goalVars, userVars, errVars, chatVars, bruteVars, lifeVars, mwVars, anVars, profVars>>

InitWs ==
  /\ ws = 0
  /\ reconnectAttempts = 0
  /\ sockets = << >>
  /\ wsTimers = << >>
  /\ hasToken = TRUE
  /\ wsCalls = 0
  /\ sinceOpen = 0
  /\ userDisconnected = FALSE

NextWs ==
  \/ \E ok \in BOOLEAN : WsConnect(ok)
  \/ \E i \in 1..MaxSockets, ok \in BOOLEAN : WsTimerFires(i, ok)
  \/ \E s \in 1..MaxSockets : WsOpen(s)
  \/ \E s \in 1..MaxSockets : WsClose(s)
  \/ WsDisconnect
  \/ \E b \in BOOLEAN : WsSetToken(b)

\* ---------------------------------------------------------------------------
\* GoalAnalysisService.calculateOverallProgress (services/goalAnalysis.js)
\* ---------------------------------------------------------------------------
progressThresholds == [excellent |-> 80, good |-> 60, fair |-> 40, needsAttention |-> 20]

GoalStatuses == {"active", "paused", "completed", "archived"}
\* progress values around the thresholds
AnalysisProgress == {0, 39, 40, 79, 80, 100}
\* a goal as the service reads it
AnalysisGoal == [status : GoalStatuses, progress : AnalysisProgress]

\* goals.filter(goal => goal.status === status)
FilterStatus(gs, status) == SelectSeq(gs, LAMBDA g : g.status = status)

\* activeGoals.reduce((sum, goal) => sum + goal.progress, 0)
RECURSIVE SumProgress(_)
SumProgress(gs) == IF gs = << >> THEN 0 ELSE Head(gs).progress + SumProgress(Tail(gs))

\* the quotient cut off instead of rounded
Round_Truncate(num, den) == num \div den

\* Math.round(num / den) for num >= 0 and den > 0: halves go up
Round(num, den) == (2 * num + den) \div (2 * den)

\* getProgressStatus(num / den): the comparisons are made on the quotient
getProgressStatus(num, den) ==
  IF num >= progressThresholds.excellent * den THEN "excellent"
  ELSE IF num >= progressThresholds.good * den THEN "good"
  ELSE IF num >= progressThresholds.fair * den THEN "fair"
  ELSE "needs_attention"

calculateOverallProgress(gs) ==
  LET activeGoals == FilterStatus(gs, "active")
      completedGoals == FilterStatus(gs, "completed")
  IN IF Len(activeGoals) = 0
       THEN [averageProgress |-> IF Len(completedGoals) > 0 THEN 100 ELSE 0,
             activeCount |-> 0,
             completedCount |-> Len(completedGoals),
             status |-> IF Len(completedGoals) > 0 THEN "all_completed" ELSE "no_goals"]
       ELSE [averageProgress |-> Round(SumProgress(activeGoals), Len(activeGoals)),
             activeCount |-> Len(activeGoals),
             completedCount |-> Len(completedGoals),
             status |-> getProgressStatus(SumProgress(activeGoals), Len(activeGoals))]

NoAnalysis == [averageProgress |-> 0, activeCount |-> 0, completedCount |-> 0, status |-> "none"]

\* the caller's list of goals grows by one goal
AnalysisAddGoal(g) ==
  /\ Len(anGoals) < MaxAnalysisGoals
  /\ anGoals' = Append(anGoals, g)
  /\ anResult' = NoAnalysis
  /\ UNCHANGED <<goalVars, userVars, errVars, chatVars, bruteVars, lifeVars, mwVars, wsVars, profVars>>

\* analyzeGoalProgress: overall = this.calculateOverallProgress(goals)
Analyze ==
  /\ anResult = NoAnalysis
  /\ anResult' = calculateOverallProgress(anGoals)
  /\ UNCHANGED anGoals
  /\ UNCHANGED <<goalVars, userVars, errVars, chatVars, bruteVars, lifeVars, mwVars, wsVars, profVars>>

NextAn ==
  \/ \E g \in AnalysisGoal : AnalysisAddGoal(g)
  \/ Analyze

InitAn ==
  /\ anGoals = << >>
  /\ anResult = NoAnalysis

\* ---------------------------------------------------------------------------
\* PATCH /api/users/profile (routes/users.js) on one user's document, with
\* its preferences and metrics
\* ---------------------------------------------------------------------------
allowedUpdates == {"name", "preferences"}
\* the paths userSchema declares under preferences
PreferencePaths == {"timezone", "coachingStyle", "reminderFrequency"}
validStyles == {"supportive", "direct", "analytical"}

\* request bodies: any of three top-level keys, a name (the one-letter name
\* fails validation) and preferences given for any of three keys, of which
\* "theme" is not in the schema and "loud" is not a coaching style
BodyKeys == {"name", "preferences", "email"}
BodyNames == {"Ann", "Bo Lee", "x"}
BodyPreferenceValues ==
  [timezone |-> {"CET"}, coachingStyle |-> {"direct", "loud"}, theme |-> {"dark"}]
BodyPreferences ==
  UNION {[ks -> {"CET", "direct", "loud", "dark"}] : ks \in SUBSET DOMAIN BodyPreferenceValues}
ProfileBodies ==
  {b \in [keys : SUBSET BodyKeys, name : BodyNames, preferences : BodyPreferences] :
     /\ \A k \in DOMAIN b.preferences : b.preferences[k] \in BodyPreferenceValues[k]
     /\ "name" \notin b.keys => b.name = "Ann"
     /\ "preferences" \notin b.keys => b.preferences = << >>}

\* validateUpdateProfile: the name has 2 to 50 letters and spaces, the
\* coaching style is one of validStyles; both optional
ProfileValidationPasses(b) ==
  /\ "name" \in b.keys => b.name # "x"
  /\ ("preferences" \in b.keys /\ "coachingStyle" \in DOMAIN b.preferences)
       => b.preferences["coachingStyle"] \in validStyles

\* updates.every(update => allowedUpdates.includes(update))
IsValidOperation(b) == b.keys \subseteq allowedUpdates

\* the spread that drops the stored preferences
MergePreferences_Replace(stored, given) ==
  [k \in PreferencePaths |-> IF k \in DOMAIN given THEN given[k] ELSE "undefined"]

\* user.preferences = { ...user.preferences, ...req.body.preferences }: the
\* schema is strict, so a key it does not declare is not set
MergePreferences(stored, given) ==
  [k \in PreferencePaths |-> IF k \in DOMAIN given THEN given[k] ELSE stored[k]]

\* updates.forEach(...) on the loaded document
ApplyUpdates(doc, b) ==
  [doc EXCEPT
     !.name = IF "name" \in b.keys THEN b.name ELSE @,
     !.preferences = IF "preferences" \in b.keys
                       THEN MergePreferences(@, b.preferences) ELSE @]

\* the paths save() writes: those whose value differs from the loaded one
ModifiedPaths(loaded, doc) == {p \in DOMAIN doc : doc[p] # loaded[p]}

NoBody == [keys |-> {}, name |-> "Ann", preferences |-> << >>]
PResp(r, code) == [req |-> r, status |-> code]
NoPResp == [req |-> 0, status |-> 0]
NewUserDoc ==
  [name |-> "Ann", email |-> "ann@x.io", password |-> "hash", avatar |-> "a.png",
   preferences |-> [timezone |-> "UTC", coachingStyle |-> "supportive",
                    reminderFrequency |-> "weekly"],
   totalGoals |-> 0, completedGoals |-> 0]
IdleProfileReq == [pc |-> "idle", body |-> NoBody, loaded |-> NewUserDoc]

\* the validators, the allowedUpdates check and "await User.findById(...)"
ProfileFind(r, b) ==
  /\ preq[r].pc = "idle"
  /\ IF ~ProfileValidationPasses(b) \/ ~IsValidOperation(b)
       THEN /\ pres' = PResp(r, 400)
            /\ UNCHANGED preq
       ELSE IF ~pstore.exists
         THEN /\ pres' = PResp(r, 404)
              /\ UNCHANGED preq
         ELSE /\ preq' = [preq EXCEPT ![r] = [pc |-> "loaded", body |-> b, loaded |-> pstore.doc]]
              /\ pres' = NoPResp
  /\ UNCHANGED pstore
  /\ UNCHANGED <<goalVars, userVars, errVars, chatVars, bruteVars, lifeVars, mwVars, wsVars, anVars>>

\* the updates, "await user.save()" and the response; a save that fails, or
\* that finds the document gone, is answered 500
ProfileSave(r, saveOk) ==
  /\ preq[r].pc = "loaded"
  /\ LET doc == ApplyUpdates(preq[r].loaded, preq[r].body)
         modified == ModifiedPaths(preq[r].loaded, doc)
     IN IF saveOk /\ pstore.exists
          THEN /\ pstore' = [pstore EXCEPT !.doc =
                               [p \in DOMAIN @ |-> IF p \in modified THEN doc[p] ELSE @[p]]]
               /\ pres' = PResp(r, 200)
          ELSE /\ pres' = PResp(r, 500)
               /\ UNCHANGED pstore
  /\ preq' = [preq EXCEPT ![r] = IdleProfileReq]
  /\ UNCHANGED <<goalVars, userVars, errVars, chatVars, bruteVars, lifeVars, mwVars, wsVars, anVars>>

\* the goal routes' User.findByIdAndUpdate(userId, { $inc: { 'metrics...': 1 } })
ProfileMetricsInc(path) ==
  /\ pstore.exists
  /\ pstore.doc[path] < MaxProfileGoals
  /\ pstore' = [pstore EXCEPT !.doc[path] = @ + 1]
  /\ pres' = NoPResp
  /\ UNCHANGED preq
  /\ UNCHANGED <<goalVars, userVars, errVars, chatVars, bruteVars, lifeVars, mwVars, wsVars, anVars>>

\* DELETE /api/users/account removes the document
ProfileUserDeleted ==
  /\ pstore.exists
  /\ pstore' = [pstore EXCEPT !.exists = FALSE]
  /\ pres' = NoPResp
  /\ UNCHANGED preq
  /\ UNCHANGED <<goalVars, userVars, errVars, chatVars, bruteVars, lifeVars, mwVars, wsVars, anVars>>

InitProfile ==
  /\ pstore = [exists |-> TRUE, doc |-> NewUserDoc]
  /\ preq = [r \in ProfileReqIds |-> IdleProfileReq]
  /\ pres = NoPResp

NextProfile ==
  \/ \E r \in ProfileReqIds, b \in ProfileBodies : ProfileFind(r, b)
  \/ \E r \in ProfileReqIds, ok \in BOOLEAN : ProfileSave(r, ok)
  \/ \E p \in {"totalGoals", "completedGoals"} : ProfileMetricsInc(p)
  \/ ProfileUserDeleted

InitClient == InitWs /\ InitAn /\ InitProfile

InitInfra == InitBrute /\ InitLife /\ InitMw /\ InitClient

InitAll == InitGoals /\ InitUsers /\ InitErr /\ InitChat /\ InitInfra

NextUsers ==
  \/ Advance
  \/ \E r \in ReqIds, n \in RegisterNames, e \in RawEmails, p \in PasswordInputs : RegisterFind(r, n, e, p)
  \/ \E r \in ReqIds : RegisterSave(r)
  \/ \E r \in ReqIds, e \in RawEmails, p \in PasswordInputs : Login(r, e, p)
  \/ \E r \in ReqIds, h \in Headers : AuthCheck(r, h)
  \/ \E r \in ReqIds : AuthSave(r)
  \/ \E r \in ReqIds, h \in Headers : OptionalAuth(r, h)
  \/ \E r \in ReqIds : OptionalHandler(r)
  \/ \E r \in ReqIds, ok \in BOOLEAN, n \in Names : Profile(r, ok, n)
  \/ \E r \in ReqIds, c \in PasswordInputs, n \in PasswordInputs : Password(r, c, n)
  \/ \E r \in ReqIds, f \in BOOLEAN : Avatar(r, f)
  \/ \E r \in ReqIds, w \in BOOLEAN : DeleteAccount(r, w)
  \/ \E u \in 1..MaxAccounts, s \in {"suspended", "deleted"} : SetAccountStatus(u, s)

SpecGoals == InitAll /\ [][NextGoals]_vars

SpecUsers == InitAll /\ [][NextUsers]_vars

\* an error reaches the handler while the rest of the application is idle
InitRaised == InitGoals /\ InitUsers /\ InitChat /\ InitInfra /\ InitErrRaised

SpecErr == InitRaised /\ [][NextErr]_vars

SpecChat == InitAll /\ [][NextChat]_vars

SpecBrute == InitAll /\ [][NextBrute]_vars

NextMw == \E req \in Requests : HandleRequest(req)

SpecMw == InitAll /\ [][NextMw]_vars

SpecWs == InitAll /\ [][NextWs]_vars

SpecProfile == InitAll /\ [][NextProfile]_vars

SpecAn == InitAll /\ [][NextAn]_vars

SpecLife == InitAll /\ [][NextLife]_vars

\* The force timer fires if the process is still running.
SpecLifeFair == SpecLife /\ WF_vars(ForceTimer)

\* ---------------------------------------------------------------------------
\* Properties of the goal routes
\* ---------------------------------------------------------------------------
IsPrefix(s, t) == Len(s) <= Len(t) /\ SubSeq(t, 1, Len(s)) = s

\* C1: the stored progress of every goal lies in [0,100], for every numeric
\* newProgress (below 0 and above 100 included), and the document that
\* updateProgress changed carries min(100, max(0, newProgress)).
C1_ProgressClamped ==
  /\ \A g \in DOMAIN goals : goals[g].progress >= 0 /\ goals[g].progress <= 100
  /\ \A r \in ReqIds :
       greq[r].pc = "progress_metrics" =>
         greq[r].doc.progress = Min(100, Max(0, greq[r].arg))

\* C1 witness: an update with a progress above 100 was saved as 100.
C1_Witness ==
  \E r \in ReqIds :
    /\ greq[r].pc = "progress_metrics"
    /\ greq[r].arg = 150
    /\ goals[greq[r].goalId].progress = 100

\* C2: a goal has status 'completed' exactly when its progress equals 100.
C2_CompletedIffFull ==
  \A g \in DOMAIN goals : (goals[g].status = "completed") <=> (goals[g].progress = 100)

\* One log entry more on goal g, every other goal as it was.
OneMore(g, log(_)) ==
  /\ Len(log(goals'[g])) = Len(log(goals[g])) + 1
  /\ \A h \in DOMAIN goals \ {g} : goals'[h] = goals[h]

ProgressHistoryOf(doc) == doc.progressHistory
CheckInsOf(doc) == doc.checkIns

\* C7: checkIns and progressHistory are append-only under every interleaving
\* of progress updates and check-ins: every step keeps each stored log as a
\* prefix of the new one, a successful check-in adds exactly one checkIns
\* entry and a successful progress update exactly one progressHistory entry,
\* and neither changes another goal.
C7_AppendOnly ==
  [][/\ \A g \in DOMAIN goals :
          /\ g \in DOMAIN goals'
          /\ IsPrefix(goals[g].checkIns, goals'[g].checkIns)
          /\ IsPrefix(goals[g].progressHistory, goals'[g].progressHistory)
      /\ \A r \in ReqIds :
          /\ (greq[r].pc = "checkin_save" /\ gresp' = Resp(r, 200)) =>
               /\ OneMore(greq[r].goalId, CheckInsOf)
               /\ goals'[greq[r].goalId].progressHistory = goals[greq[r].goalId].progressHistory
          /\ (greq[r].pc = "progress_save" /\ greq'[r].pc = "progress_metrics") =>
               /\ OneMore(greq[r].goalId, ProgressHistoryOf)
               /\ goals'[greq[r].goalId].checkIns = goals[greq[r].goalId].checkIns
     ]_vars

\* C7 witness: two requests loaded the same goal before either saved, and
\* both entries are in the stored logs while another goal exists.
C7_Witness ==
  \E g \in DOMAIN goals, h \in DOMAIN goals :
    /\ g # h
    /\ Len(goals[g].progressHistory) + Len(goals[g].checkIns) = 2
    /\ \E r \in ReqIds :
         /\ greq[r].pc = "progress_metrics"
         /\ greq[r].goalId = g
         /\ Len(greq[r].doc.progressHistory) + Len(greq[r].doc.checkIns) = 1

\* ---------------------------------------------------------------------------
\* Properties of the auth routes, the auth middleware and the user routes
\* ---------------------------------------------------------------------------
EmailTaken(email) == \E u \in DOMAIN users : users[u].email = NormalizeEmail(email)

\* C3: a register request whose email already belongs to a stored user is
\* answered 400 with success=false and leaves the stored users unchanged.
C3_DuplicateRejected ==
  [][\A r \in ReqIds, n \in RegisterNames, e \in RawEmails, p \in PasswordInputs :
       (EmailTaken(e) /\ RegisterFind(r, n, e, p)) =>
         (aresp' = AResp(r, "register", 400, FALSE) /\ users' = users)]_vars

\* C3 witness: a register request was answered 400 while a user is stored.
C3_Witness ==
  /\ aresp.route = "register" /\ aresp.status = 400 /\ ~aresp.ok
  /\ Cardinality(DOMAIN users) = 1

\* C4: under every interleaving of register requests with the same email at
\* most one user with that email is stored, and a request that finds the
\* email taken when it saves is answered 400, never another status.
C4_ConcurrentDuplicate400 ==
  [][/\ \A u1 \in DOMAIN users', u2 \in DOMAIN users' :
          users'[u1].email = users'[u2].email => u1 = u2
     /\ \A r \in ReqIds :
          (/\ areq[r].pc = "reg_save" /\ areq'[r].pc = "idle"
           /\ areq[r].password # ShortPassword /\ EmailTaken(areq[r].email)) =>
            aresp' = AResp(r, "register", 400, FALSE)
    ]_vars

\* The requests the auth middleware must turn away: no header, an empty
\* token, a token not signed with JWT_SECRET, an expired token, or the token
\* of a user that is not stored.
Unauthenticated(h) ==
  \/ HeaderMissing(h)
  \/ ExtractToken(h) = NoToken
  \/ ExtractToken(h).sig # "secret"
  \/ clock >= ExtractToken(h).exp
  \/ ExtractToken(h).userId \notin DOMAIN users

\* C8: the auth middleware answers every such request 401 without setting
\* req.user, and a route handler is entered only from the middleware, for a
\* token signed with JWT_SECRET whose userId is a stored user.
C8_AuthGate ==
  [][\A r \in ReqIds :
       /\ \A h \in Headers :
            (Unauthenticated(h) /\ AuthCheck(r, h)) =>
              (aresp' = AResp(r, "auth", 401, FALSE) /\ areq'[r] = IdleUserReq)
       /\ (areq'[r].pc = "auth_save" /\ areq[r].pc # "auth_save") =>
            /\ areq'[r].token \in issued
            /\ clock < areq'[r].token.exp
            /\ areq'[r].uid = areq'[r].token.userId
            /\ areq'[r].uid \in DOMAIN users
       /\ (areq'[r].pc = "handler" /\ areq[r].pc # "handler") =>
            /\ areq[r].pc = "auth_save"
            /\ areq'[r].token \in issued
            /\ areq'[r].uid = areq'[r].token.userId
            /\ areq'[r].uid \in DOMAIN users
    ]_vars

\* C8 witness: a request was answered 401 by the middleware while another
\* request is in its handler and an issued token has expired.
C8_Witness ==
  /\ aresp.route = "auth" /\ aresp.status = 401
  /\ \E q \in ReqIds : areq[q].pc = "handler"
  /\ \E t \in issued : clock >= t.exp

\* C9: a request carrying the valid token of a suspended or deleted account
\* is answered 403 by the auth middleware and never reaches the handler, and
\* optionalAuth does not attach such a user.
C9_SuspendedBlocked ==
  [][\A r \in ReqIds, h \in Headers :
       LET inactive == /\ ~Unauthenticated(h)
                       /\ users[ExtractToken(h).userId].status \in {"suspended", "deleted"}
       IN /\ (inactive /\ AuthCheck(r, h)) =>
               (aresp' = AResp(r, "auth", 403, FALSE) /\ areq'[r] = IdleUserReq)
          /\ (inactive /\ OptionalAuth(r, h)) => areq'[r].uid = 0
    ]_vars

Handled == errRes # NoErrResponse
IsApi == errIn.url = "/api/goals"
\* the status code the handler gives an error that carries none
StatusOf(err) == IF err.statusCode = 0 THEN 500 ELSE err.statusCode

\* C5 as claimed: for every error handled on an /api request, an operational
\* error is answered with its own status code and message, and any other
\* error with 500 and the fixed generic message, without the error's message
\* or stack in the body.
C5_OperationalOrMasked ==
  (Handled /\ IsApi) =>
    IF errIn.err.isOperational
      THEN errRes.status = StatusOf(errIn.err) /\ errRes.error = errIn.err.message
      ELSE /\ errRes.status = 500
           /\ errRes.error = GenericMessage
           /\ errRes.error # errIn.err.message
           /\ ~errRes.stack /\ ~errRes.details

\* The errors the handler rewrites before sending: an own name of a known
\* library error, a duplicate-key code, a rate-limit type or an upstream
\* response status.
Recognised(err) ==
  \/ err.nameOwn /\ err.name \in ErrorNames \ {"Error"}
  \/ err.code = 11000
  \/ err.type = "RateLimitError"
  \/ err.responseStatus # 0

\* C5 amended: outside development mode, for an error that is none of the
\* recognised library errors, an operational error is answered with its own
\* status code (500 if it has none) and message, and any other error with
\* 500 and the fixed generic message, without its message or stack.
C5_ProdOperationalOrMasked ==
  (Handled /\ IsApi /\ nodeEnv # "development" /\ ~Recognised(errIn.err)) =>
    IF errIn.err.isOperational
      THEN /\ errRes.status = StatusOf(errIn.err)
           /\ errRes.error = errIn.err.message
           /\ ~errRes.stack
      ELSE /\ errRes.status = 500
           /\ errRes.error = GenericMessage
           /\ errRes.error # errIn.err.message
           /\ ~errRes.stack /\ ~errRes.details

\* C5 witness: in production an unrecognised non-operational error with a
\* status code of its own was answered 500 with the generic message.
C5_Witness ==
  /\ Handled /\ IsApi /\ nodeEnv = "production"
  /\ ~Recognised(errIn.err) /\ ~errIn.err.isOperational
  /\ errIn.err.statusCode = 400
  /\ errRes.status = 500 /\ errRes.error = GenericMessage

CompletedGoalsOf(u) == {g \in DOMAIN goals : goals[g].userId = u /\ goals[g].status = "completed"}

\* C11: whenever no progress update is between its save and its metrics
\* write, each user's metrics.completedGoals equals the number of the user's
\* goals whose status is 'completed'.
C11_CompletedGoalsCount ==
  (\A r \in ReqIds : greq[r].pc # "progress_metrics") =>
    \A u \in UserIds : metrics[u].completedGoals = Cardinality(CompletedGoalsOf(u))

\* The goal and chat routes together, for the properties that speak of the
\* records of both: one request at a time, with well-formed bodies.
NextRecords ==
  \/ \E u \in UserIds : CreateGoal(1, u, TRUE)
  \/ CreateGoalMetrics(1)
  \/ \E u \in UserIds, g \in GoalIds, p \in {50, 100} : ProgressFind(1, u, g, p)
  \/ \E n \in Notes : ProgressSave(1, n)
  \/ ProgressMetrics(1)
  \/ \E u \in UserIds, g \in GoalIds : CheckInFind(1, u, g, 3)
  \/ \E n \in Notes : CheckInSave(1, n)
  \/ \E u \in UserIds : ChatSaveUser(1, u, "hello", 1, TRUE)
  \/ \E a \in BOOLEAN : ChatReply(1, a, TRUE)
  \/ ChatSaveAi(1, TRUE)
  \/ \E u \in UserIds, m \in 1..MaxChatEvents, g \in RatingInputs, f \in FeedbackInputs :
       ChatFeedback(1, u, m, g, f)

SpecRecords == InitAll /\ [][NextRecords]_vars

\* C12: a progress update, check-in or feedback request that names a record
\* of another user is answered 404 and changes no goal, message or metric
\* (and leaves no work pending); a goal is changed only by a request of its
\* owner, and a message only by a feedback request of its owner.
C12_OwnerOnly ==
  [][/\ \A r \in ReqIds, u \in UserIds, g \in DOMAIN goals :
          (goals[g].userId # u /\
             ((\E p \in ProgressInputs : ProgressFind(r, u, g, p))
                \/ (\E m \in MoodInputs : CheckInFind(r, u, g, m)))) =>
            (gresp' = Resp(r, 404) /\ goals' = goals /\ metrics' = metrics /\ greq' = greq)
     /\ \A r \in ReqIds, u \in UserIds, m \in DOMAIN msgs :
          (msgs[m]["userId"] # u /\
             (\E g \in RatingInputs, f \in FeedbackInputs : ChatFeedback(r, u, m, g, f))) =>
            (cresp' = CResp(r, "feedback", 404, FALSE) /\ msgs' = msgs)
     /\ \A g \in DOMAIN goals :
          goals'[g] # goals[g] =>
            \E r \in ReqIds : /\ greq[r].pc \in {"progress_save", "checkin_save"}
                              /\ greq[r].goalId = g
                              /\ greq[r].userId = goals[g].userId
     /\ \A u \in UserIds :
          metrics'[u] # metrics[u] =>
            \E r \in ReqIds : /\ greq[r].pc \in {"create_metrics", "progress_metrics"}
                              /\ greq[r].userId = u
                              /\ goals[greq[r].goalId].userId = u
     /\ \A r \in ReqIds, u \in UserIds, m \in DOMAIN msgs :
          ((\E g \in RatingInputs, f \in FeedbackInputs : ChatFeedback(r, u, m, g, f))
             /\ msgs'[m] # msgs[m]) => msgs[m]["userId"] = u
    ]_vars

\* C12 witness: every goal id names a stored goal and the two goals belong
\* to different users, one of them was updated by its owner, a goal request
\* was answered 404, and a feedback request was answered 404 while the
\* messages of a turn are stored.
C12_Witness ==
  /\ DOMAIN goals = GoalIds
  /\ \E g \in GoalIds, h \in GoalIds : goals[g].userId # goals[h].userId
  /\ gresp.status = 404
  /\ cresp = CResp(1, "feedback", 404, FALSE)
  /\ \E m \in DOMAIN msgs : msgs[m]["type"] = "ai"
  /\ \E g \in GoalIds : Len(goals[g].progressHistory) > 0

\* ---------------------------------------------------------------------------
\* Properties of bruteForceProtection
\* ---------------------------------------------------------------------------
\* C13: once maxAttempts failures are counted for a key the key is blocked
\* (the counter never rests at maxAttempts), and until the block's 'until'
\* time the block stays in force with that time: every request for the key
\* arriving before it is answered 429 without next() and without being
\* counted or passed to the handler.
C13_BlockedUntil ==
  [][\A k \in BruteKeys :
       /\ k \in DOMAIN attempts' => attempts'[k].count < maxAttempts
       /\ (k \in DOMAIN blocked /\ bclock < blocked[k].until) =>
            /\ k \in DOMAIN blocked' /\ blocked'[k].until >= blocked[k].until
            /\ BruteArrive(k) =>
                 /\ bresp' = BResp(k, 429, FALSE)
                 /\ inflight' = inflight /\ attempts' = attempts
    ]_vars

\* C14: the first request for a blocked key arriving at or after 'until'
\* removes the block and is passed on; when a key becomes blocked, at least
\* maxAttempts failures have finished since its block was last removed; a 2xx
\* response deletes the key's failure counter.
C14_BlockEnds ==
  [][\A k \in BruteKeys :
       /\ (k \in DOMAIN blocked /\ bclock >= blocked[k].until /\ BruteArrive(k)) =>
            (k \notin DOMAIN blocked' /\ bresp' = BResp(k, 0, TRUE))
       /\ (k \notin DOMAIN blocked /\ k \in DOMAIN blocked') =>
            sinceUnblock'[k] >= maxAttempts
       /\ \A t \in BruteTimes, s \in HandlerStatuses :
            (IsSuccess(s) /\ BruteFinish(k, t, s)) => k \notin DOMAIN attempts'
    ]_vars

\* C15: under every interleaving of arrivals and finish events, at most
\* maxAttempts requests that end in 401 or 403 are passed to the handler
\* within one window before the key is blocked.
C15_AtMostMaxAttemptsPassed ==
  \A k \in BruteKeys : streak[k].count <= maxAttempts

\* ---------------------------------------------------------------------------
\* Properties of the process lifecycle
\* ---------------------------------------------------------------------------
\* C16: the database connection is closed only after the HTTP server has
\* closed, the Redis connection only after the database connection, and the
\* process exits with code 0 only when the server, the database connection
\* and the Redis client (if any) are closed; the states after a second signal
\* are among those checked.
C16_ShutdownOrder ==
  /\ db \in {"closing", "closed"} => http = "closed"
  /\ redis \in {"closing", "closed"} => db = "closed"
  /\ (exit.done /\ exit.code = 0) =>
       (http = "closed" /\ db = "closed" /\ redis \in {"none", "closed"})

\* C16 witness: after a signal the process exited with code 0 with the
\* server, the database connection and the Redis client closed.
C16_Witness ==
  /\ exit = Exited(0)
  /\ signals > 0
  /\ http = "closed" /\ db = "closed" /\ redis = "closed"

\* server.close has been called
ShutdownInvoked == http \in {"closing", "closed"}

\* C17: once gracefulShutdown has been invoked the process eventually exits,
\* with code 0 or 1.
C17_ShutdownExits == ShutdownInvoked ~> (exit.done /\ exit.code \in {0, 1})

\* C17 witness: the process exited with code 1 while server.close had not
\* completed and a force timer was armed.
C17_Witness ==
  /\ exit = Exited(1)
  /\ http = "closing" /\ closeCallbacks = <<"ok">>
  /\ timers > 0

\* C18: the server listens only with the database connected; a failed
\* database connection exits with code 1 and the server never listens; a
\* failed Redis connection or vector-store initialisation does not exit, and
\* startup goes on to the next step.
C18_StartupOrder ==
  [][/\ http' # "none" => db' # "none"
     /\ connectDatabase(FALSE) => (exit' = Exited(1) /\ http' = "none")
     /\ (exit.done /\ db = "none") => http' = "none"
     /\ connectRedis("fail") => (~exit'.done /\ phase' = "init_services")
     /\ initializeServices(FALSE) => (~exit'.done /\ phase' = "listen")
    ]_vars

\* C18 witness: the server is listening after the Redis connection and the
\* vector-store initialisation both failed.
C18_Witness ==
  /\ http = "listening" /\ db = "connected"
  /\ redis = "failed" /\ services = "failed"
  /\ ~exit.done

\* C19: an uncaught exception or unhandled rejection raised after the server
\* started does not end the process before the HTTP server and the database
\* connection are closed.
C19_ErrorShutsDownGracefully ==
  [][\A k \in ProcessErrors :
       (phase = "running" /\ ProcessError(k)) =>
         (exit'.done => (http' = "closed" /\ db' = "closed"))
    ]_vars

\* C20: a CORS preflight request (OPTIONS, an allowed origin, no Content-Type
\* header, an unsuspicious URL) is answered by the CORS middleware with the
\* preflight success status; no earlier middleware rejects it
C20_PreflightReachesCors ==
  (/\ mwReq.method = "OPTIONS"
   /\ mwReq.origin \in defaultOrigins
   /\ mwReq.contentType = "none"
   /\ ~mwReq.suspicious)
  => mwRes = Response(optionsSuccessStatus, "cors")


\* the user message that request r persisted before it asked for a reply
UserMessageOf(r) ==
  {m \in DOMAIN msgs : /\ msgs[m]["type"] = "user"
                       /\ msgs[m]["userId"] = creq[r].userId
                       /\ msgs[m]["conversationId"] = creq[r].conv}

\* C21: a chat turn survives a failed completion call: the reply is the
\* fallback (intent "fallback") and is generated after the user message was
\* persisted; each of the turn's two saves adds exactly one message, the AI
\* message carries the conversationId of the user message, and the request is
\* answered 200 with success = true
C21_TurnSurvivesAiFailure ==
  [][\A r \in ReqIds :
       /\ (\E e \in BOOLEAN : ChatReply(r, FALSE, e))
            => /\ creq'[r].intent = "fallback"
               /\ UserMessageOf(r) # {}
               /\ msgs' = msgs
       /\ (/\ creq[r].pc = "chat_save_ai"
           /\ creq[r].intent = "fallback"
           /\ ChatSaveAi(r, TRUE))
            => /\ cresp' = CResp(r, "message", 200, TRUE)
               /\ creq[r].aiId \notin DOMAIN msgs
               /\ DOMAIN msgs' = DOMAIN msgs \cup {creq[r].aiId}
               /\ \A m \in DOMAIN msgs : msgs'[m] = msgs[m]
               /\ msgs'[creq[r].aiId]["type"] = "ai"
               /\ msgs'[creq[r].aiId]["metadata.intent"] = "fallback"
               /\ \E m \in UserMessageOf(r) :
                    msgs'[creq[r].aiId]["conversationId"] = msgs[m]["conversationId"]
       /\ \A u \in UserIds, c \in ContentInputs, v \in ConvInputs, e \in BOOLEAN :
            (ChatSaveUser(r, u, c, v, e) /\ creq'[r].pc = "chat_reply")
              => Cardinality(DOMAIN msgs') = Cardinality(DOMAIN msgs) + 1
    ]_vars

\* a turn whose completion failed was answered with success and its fallback
\* reply is stored
C21_Witness ==
  /\ cresp = CResp(cresp.req, "message", 200, TRUE)
  /\ \E m \in DOMAIN msgs : msgs[m]["type"] = "ai" /\ msgs[m]["metadata.intent"] = "fallback"


\* C22: whenever no chat request is in progress, every entry of the vector
\* store refers to a stored message
C22_VectorsReferToMessages ==
  (\A r \in ReqIds : creq[r].pc = "idle")
    => \A v \in vectors : v.messageId \in DOMAIN msgs


\* some socket's onopen / onclose ran in this step
SomeOpened == \E s \in 1..Len(sockets) : sockets[s] = "connecting" /\ sockets'[s] = "open"
SomeClosed == \E s \in 1..Len(sockets) : sockets[s] # "closed" /\ sockets'[s] = "closed"

\* C23: reconnection is bounded: a reconnect is scheduled only by a close, the
\* n-th one since the last open with delay reconnectInterval * 2^(n-1) and
\* n <= maxReconnectAttempts; at the limit a close schedules nothing; and
\* reconnectAttempts goes back to 0 only when a socket opens
C23_ReconnectBounded ==
  [][/\ Len(wsTimers') > Len(wsTimers)
          => /\ SomeClosed
             /\ Len(wsTimers') = Len(wsTimers) + 1
             /\ sinceOpen' = sinceOpen + 1
             /\ sinceOpen' <= maxReconnectAttempts
             /\ wsTimers'[Len(wsTimers')] = reconnectInterval * Pow2(sinceOpen' - 1)
     /\ (sinceOpen >= maxReconnectAttempts /\ ~SomeOpened)
          => /\ Len(wsTimers') <= Len(wsTimers)
             /\ sinceOpen' = sinceOpen
     /\ reconnectAttempts' < reconnectAttempts
          => /\ reconnectAttempts' = 0
             /\ SomeOpened
     /\ reconnectAttempts = sinceOpen
    ]_vars

\* the limit was reached: five reconnects were scheduled and ran, the sixth
\* socket closed as well and nothing is scheduled any more
C23_Witness ==
  /\ reconnectAttempts = maxReconnectAttempts
  /\ Len(sockets) = maxReconnectAttempts + 1
  /\ \A s \in 1..Len(sockets) : sockets[s] = "closed"
  /\ wsTimers = << >>


\* C24: after disconnect() and until the application calls connect() again,
\* no reconnect is scheduled and no socket is created
C24_StaysDisconnected ==
  [][(userDisconnected /\ userDisconnected')
       => /\ Len(wsTimers') <= Len(wsTimers)
          /\ Len(sockets') = Len(sockets)
    ]_vars


WithStatus(status) == {i \in 1..Len(anGoals) : anGoals[i].status = status}
RECURSIVE ProgressSum(_)
ProgressSum(is) ==
  IF is = {} THEN 0
  ELSE LET i == CHOOSE j \in is : TRUE IN anGoals[i].progress + ProgressSum(is \ {i})

\* C26: calculateOverallProgress counts the active and the completed goals;
\* with an active goal averageProgress is the mean progress of the active
\* goals rounded to the nearest integer (halves up), within 0..100, and the
\* status follows the unrounded mean at 80, 60 and 40; with no active goal it
\* is 100 and "all_completed" if a goal is completed, else 0 and "no_goals"
C26_OverallProgress ==
  anResult # NoAnalysis =>
    LET active == WithStatus("active")
        n == Cardinality(active)
        sum == ProgressSum(active)
        a == anResult.averageProgress
    IN /\ anResult.activeCount = n
       /\ anResult.completedCount = Cardinality(WithStatus("completed"))
       /\ n > 0 =>
            /\ 2 * a * n - n <= 2 * sum
            /\ 2 * sum < 2 * a * n + n
            /\ a \in 0..100
            /\ anResult.status =
                 (IF sum >= 80 * n THEN "excellent"
                  ELSE IF sum >= 60 * n THEN "good"
                  ELSE IF sum >= 40 * n THEN "fair"
                  ELSE "needs_attention")
       /\ n = 0 =>
            IF WithStatus("completed") # {}
              THEN a = 100 /\ anResult.status = "all_completed"
              ELSE a = 0 /\ anResult.status = "no_goals"

\* two active goals with mean 79.5 beside a completed and a paused one: the
\* average is rounded up to 80 while the status stays "good"
C26_Witness ==
  /\ anResult.activeCount = 2
  /\ anResult.completedCount = 1
  /\ Len(anGoals) = 3
  /\ anResult.averageProgress = 80
  /\ anResult.status = "good"

====
